---- MODULE Spec2Model ----
(***************************************************************************)
(* A model of the Obsidian vault server: path resolution confined to the   *)
(* vault root (vault.py), wikilink extraction and the link graph           *)
(* (links.py).  Strings are sequences of one-character strings, paths are  *)
(* sequences of components (pathlib's parts, without the leading "/"), and *)
(* the filesystem is a function from canonical absolute paths to nodes.    *)
(***************************************************************************)
EXTENDS Integers, Sequences, FiniteSets, TLC

VARIABLES fs, call, ret, nops

vars == <<fs, call, ret, nops>>

----------------------------------------------------------------------------
(* Strings *)

\* The characters the model uses, in ASCII order (Python compares str by code point).
Ascii ==
  << "\n", "\r", " ", "!", "#", "*", ".", "/", "0", "1", "2", "3", "4", "5", "6", "7", "8", "9",
     "A", "D", "I", "N", "X", "Y", "[", "]", "^", "_",
     "a", "b", "c", "d", "e", "f", "g", "h", "i", "j", "k", "l", "m", "n", "o", "p", "q",
     "r", "s", "t", "u", "v", "w", "x", "y", "z", "|" >>

CodeOf == [c \in {Ascii[i] : i \in DOMAIN Ascii} |-> CHOOSE i \in DOMAIN Ascii : Ascii[i] = c]

\* str.lower() on one character
Lower(c) ==
  CASE c = "A" -> "a" [] c = "D" -> "d" [] c = "I" -> "i" [] c = "N" -> "n"
    [] c = "X" -> "x" [] c = "Y" -> "y" [] OTHER -> c

LowerStr(s) == [i \in 1..Len(s) |-> Lower(s[i])]

StartsWith(s, p) == Len(p) <= Len(s) /\ SubSeq(s, 1, Len(p)) = p

EndsWith(s, p) == Len(p) <= Len(s) /\ SubSeq(s, Len(s) - Len(p) + 1, Len(s)) = p

\* s < t for str: lexicographic by code point, a proper prefix is smaller
RECURSIVE StrLess(_, _)
StrLess(s, t) ==
  IF t = <<>> THEN FALSE
  ELSE IF s = <<>> THEN TRUE
  ELSE IF Head(s) = Head(t) THEN StrLess(Tail(s), Tail(t))
  ELSE CodeOf[Head(s)] < CodeOf[Head(t)]

\* str.strip("/")
StripSlash(s) ==
  LET keep == {i \in 1..Len(s) : s[i] # "/"}
  IN IF keep = {} THEN <<>>
     ELSE SubSeq(s, CHOOSE i \in keep : \A j \in keep : i <= j,
                    CHOOSE i \in keep : \A j \in keep : i >= j)

MD == <<".", "m", "d">>
DotDot == <<".", ".">>
Dot == <<".">>

\* the raw pieces of s between "/" characters
RECURSIVE SplitRaw(_, _)
SplitRaw(s, cur) ==
  IF s = <<>> THEN <<cur>>
  ELSE IF Head(s) = "/" THEN <<cur>> \o SplitRaw(Tail(s), <<>>)
  ELSE SplitRaw(Tail(s), Append(cur, Head(s)))

\* pathlib's parsing of a relative path string: empty and "." components are dropped,
\* ".." is kept
PathParts(s) ==
  LET raw == SplitRaw(s, <<>>)
  IN SelectSeq(raw, LAMBDA c : c # <<>> /\ c # Dot)

----------------------------------------------------------------------------
(* Paths: a path is the sequence of its components below "/" *)

Parent(p) == IF p = <<>> THEN <<>> ELSE SubSeq(p, 1, Len(p) - 1)

Last(p) == p[Len(p)]

\* PurePath.name
PathName(p) == IF p = <<>> THEN <<>> ELSE Last(p)

\* base / s
Join(base, s) ==
  IF s # <<>> /\ Head(s) = "/" THEN PathParts(s) ELSE base \o PathParts(s)

\* str(path)
RECURSIVE PathStr(_)
PathStr(p) ==
  IF p = <<>> THEN <<"/">>
  ELSE IF Len(p) = 1 THEN <<"/">> \o p[1]
  ELSE PathStr(Parent(p)) \o <<"/">> \o Last(p)

\* PurePath.__lt__: the parts compared as lists of str
RECURSIVE PathLess(_, _)
PathLess(p, q) ==
  IF q = <<>> THEN FALSE
  ELSE IF p = <<>> THEN TRUE
  ELSE IF Head(p) = Head(q) THEN PathLess(Tail(p), Tail(q))
  ELSE StrLess(Head(p), Head(q))

\* lexical prefix on parts (what PurePath.relative_to accepts)
IsPrefix(p, q) == Len(p) <= Len(q) /\ SubSeq(q, 1, Len(p)) = p

MinPath(S) == CHOOSE p \in S : \A q \in S : q = p \/ PathLess(p, q)

MaxPath(S) == CHOOSE p \in S : \A q \in S : q = p \/ PathLess(q, p)

\* sorted(S)
RECURSIVE SortPaths(_)
SortPaths(S) == IF S = {} THEN <<>> ELSE <<MinPath(S)>> \o SortPaths(S \ {MinPath(S)})

\* PurePath.suffix == ".md"
HasMdSuffix(name) == EndsWith(name, MD) /\ Len(name) > Len(MD)

\* fnmatch of one path component against a pattern in which only "*" is special
RECURSIVE GlobMatch(_, _)
GlobMatch(pat, name) ==
  IF pat = <<>> THEN name = <<>>
  ELSE IF Head(pat) = "*"
       THEN GlobMatch(Tail(pat), name) \/ (name # <<>> /\ GlobMatch(pat, Tail(name)))
  ELSE name # <<>> /\ Head(name) = Head(pat) /\ GlobMatch(Tail(pat), Tail(name))

----------------------------------------------------------------------------
(* The filesystem: fs[p] is the node at canonical path p; <<>> is "/" *)

DirNode == [kind |-> "dir", content |-> <<>>, target |-> <<>>]
FileNode(c) == [kind |-> "file", content |-> c, target |-> <<>>]
LinkNode(t) == [kind |-> "link", content |-> <<>>, target |-> t]

\* The OS walk of a path (stat): every component must exist, symlinks are followed,
\* ".." is the physical parent.  err is "" or the errno name.
RECURSIVE StatWalk(_, _, _)
StatWalk(f, cur, rest) ==
  IF cur \notin DOMAIN f THEN [err |-> "ENOENT", path |-> cur]
  ELSE IF rest = <<>> THEN [err |-> "", path |-> cur]
  ELSE IF f[cur].kind # "dir" THEN [err |-> "ENOTDIR", path |-> cur]
  ELSE IF Head(rest) = DotDot THEN StatWalk(f, Parent(cur), Tail(rest))
  ELSE LET nxt == Append(cur, Head(rest))
       IN IF nxt \in DOMAIN f /\ f[nxt].kind = "link"
          THEN StatWalk(f, <<>>, f[nxt].target \o Tail(rest))
          ELSE StatWalk(f, nxt, Tail(rest))

Stat(f, p) == StatWalk(f, <<>>, p)

\* Path.is_file(), Path.is_dir(), Path.exists()
IsFile(f, p) == LET s == Stat(f, p) IN s.err = "" /\ f[s.path].kind = "file"
IsDir(f, p) == LET s == Stat(f, p) IN s.err = "" /\ f[s.path].kind = "dir"

\* Path.resolve() (os.path.realpath, not strict): symlinks followed, ".." popped,
\* components that do not exist kept as written
RECURSIVE RealWalk(_, _, _)
RealWalk(f, cur, rest) ==
  IF rest = <<>> THEN cur
  ELSE IF Head(rest) = DotDot THEN RealWalk(f, Parent(cur), Tail(rest))
  ELSE LET nxt == Append(cur, Head(rest))
       IN IF nxt \in DOMAIN f /\ f[nxt].kind = "link"
          THEN RealWalk(f, <<>>, f[nxt].target \o Tail(rest))
          ELSE RealWalk(f, nxt, Tail(rest))

Resolve(f, p) == RealWalk(f, <<>>, p)

\* The entries found below base by Path.rglob(pattern) ("**/pattern"): base is opened
\* (symlinks followed), real subdirectories are descended into, symlinked ones are not.
\* Nothing below a symlink is in DOMAIN f, so every proper descendant of the canonical
\* base is reached through real directories.
RGlob(f, base, pattern) ==
  LET s == Stat(f, base)
  IN IF s.err # "" \/ f[s.path].kind # "dir" THEN {}
     ELSE { base \o SubSeq(p, Len(s.path) + 1, Len(p)) :
              p \in { q \in DOMAIN f : IsPrefix(s.path, q) /\ Len(q) > Len(s.path)
                                        /\ GlobMatch(pattern, Last(q)) } }

\* Path.iterdir()
IterDir(f, base) ==
  LET s == Stat(f, base)
  IN { Append(base, Last(q)) : q \in { q \in DOMAIN f : Len(q) = Len(s.path) + 1
                                                       /\ IsPrefix(s.path, q) } }

----------------------------------------------------------------------------
(* vault.py *)

\* The vault root, Path(vault_path).resolve(): the directory /v
Root == << <<"v">> >>

None == [some |-> FALSE, path |-> <<>>]
Some(p) == [some |-> TRUE, path |-> p]

EXCLUDED_DIRS ==
  { <<".", "o", "b", "s", "i", "d", "i", "a", "n">>, <<".", "t", "r", "a", "s", "h">>,
    <<".", "g", "i", "t">>, <<".", "v", "e", "n", "v">>,
    <<"n", "o", "d", "e", "_", "m", "o", "d", "u", "l", "e", "s">> }

\* Vault._is_within_vault: a prefix test on the two strings
is_within_vault(f, path) == StartsWith(PathStr(Resolve(f, path)), PathStr(Root))

\* The entry `for p in rglob(...)` meets first.  pathlib walks a directory's own
\* entries before its subdirectories and takes siblings in os.scandir order, which the
\* filesystem decides: scan picks among the entries no other match must precede.
FirstScanned(S, scan) ==
  LET first == { m \in S : ~ \E o \in S : Len(o) < Len(m) /\ IsPrefix(Parent(o), Parent(m)) }
  IN IF scan = "asc" THEN MinPath(first) ELSE MaxPath(first)

\* resolve_path, rule 1: the reference as a vault-relative path
ExactMatch(f, name) ==
  LET candidate == Join(Root, name)
  IN IF IsFile(f, candidate) /\ is_within_vault(f, candidate) THEN Some(candidate) ELSE None

SuffixMatchSkipped(f, name) == None

\* resolve_path, rule 2: the same with ".md" appended
SuffixMatch(f, name) ==
  LET candidate == Join(Root, name \o MD)
  IN IF ~EndsWith(name, MD) /\ IsFile(f, candidate) /\ is_within_vault(f, candidate)
     THEN Some(candidate) ELSE None

\* the name searched for by rules 3 and 4
Basename(name) ==
  LET last == PathName(PathParts(name))
  IN IF EndsWith(last, MD) THEN last ELSE last \o MD

PickMatchUnsorted(matches) == MaxPath(matches)

\* resolve_path, rule 3: one match is returned as it is, several are sorted
PickMatch(matches) == MinPath(matches)

\* Vault.resolve_path
resolve_path(f, name_or_path, scan) ==
  LET name == StripSlash(name_or_path)
      basename == Basename(name)
      matches == { m \in RGlob(f, Root, basename) : is_within_vault(f, m) /\ IsFile(f, m) }
      nocase == { p \in RGlob(f, Root, <<"*">> \o MD) :
                    LowerStr(Last(p)) = LowerStr(basename) /\ is_within_vault(f, p) }
  IN IF ExactMatch(f, name).some THEN ExactMatch(f, name)
     ELSE IF SuffixMatch(f, name).some THEN SuffixMatch(f, name)
     ELSE IF matches # {} THEN Some(PickMatch(matches))
     ELSE IF nocase # {} THEN Some(FirstScanned(nocase, scan))
     ELSE None

\* os.mkdir(p): the parent must exist and be a directory, p itself must not exist
OsMkdir(f, p) ==
  IF p = <<>> THEN [fs |-> f, err |-> "EEXIST"]
  ELSE LET s == Stat(f, Parent(p))
       IN IF s.err # "" THEN [fs |-> f, err |-> s.err]
          ELSE IF f[s.path].kind # "dir" THEN [fs |-> f, err |-> "ENOTDIR"]
          ELSE IF Last(p) = DotDot \/ Append(s.path, Last(p)) \in DOMAIN f
               THEN [fs |-> f, err |-> "EEXIST"]
          ELSE [fs |-> (Append(s.path, Last(p)) :> DirNode) @@ f, err |-> ""]

\* Path.mkdir(parents=True, exist_ok=True): FileNotFoundError makes the parents first,
\* any other OSError is swallowed when the path is a directory and raised otherwise
RECURSIVE MkdirParents(_, _)
MkdirParents(f, p) ==
  LET r == OsMkdir(f, p)
  IN IF r.err = "" THEN r
     ELSE IF r.err = "ENOENT"
          THEN IF p = <<>> THEN r
               ELSE LET up == MkdirParents(f, Parent(p))
                    IN IF up.err # "" THEN up
                       ELSE LET again == OsMkdir(up.fs, p)
                            IN IF again.err = "" \/ IsDir(up.fs, p)
                               THEN [fs |-> again.fs, err |-> ""]
                               ELSE again
     ELSE IF IsDir(f, p) THEN [fs |-> f, err |-> ""]
     ELSE r

\* Vault.ensure_path: the path returned, the exception raised ("" when none) and the
\* filesystem it leaves
ensure_path(f, vault_relative) ==
  LET stripped == StripSlash(vault_relative)
      rel == IF EndsWith(stripped, MD) THEN stripped ELSE stripped \o MD
      full == Join(Root, rel)
  IN IF ~is_within_vault(f, full)
     THEN [raised |-> "ValueError", path |-> <<>>, fs |-> f]
     ELSE LET made == MkdirParents(f, Parent(full))
          IN IF made.err # ""
             THEN [raised |-> made.err, path |-> <<>>, fs |-> made.fs]
             ELSE [raised |-> "", path |-> full, fs |-> made.fs]

\* Vault._should_include; relative_to raises ValueError when path is not lexically
\* below the root
RelativeToRoot(path) == SubSeq(path, Len(Root) + 1, Len(path))

\* A test that looks at the directories above the entry and not at its own name
should_include_parents(path) ==
  ~ \E i \in 1..(Len(RelativeToRoot(path)) - 1) : RelativeToRoot(path)[i] \in EXCLUDED_DIRS

should_include(path) ==
  ~ \E i \in 1..Len(RelativeToRoot(path)) : RelativeToRoot(path)[i] \in EXCLUDED_DIRS

\* A depth counted from the vault root and not from the base folder
within_depth_of_root(path, base, max_depth) == Len(path) - Len(Root) <= max_depth

\* Vault._within_depth
within_depth(path, base, max_depth) == Len(path) - Len(base) <= max_depth

\* The walk of a generator over the sorted candidates: each one that is included (and,
\* in a recursive walk, within max_depth of base) is yielded, and the first one
\* relative_to(root) rejects ends the walk with ValueError
RECURSIVE YieldAll(_, _, _, _, _)
YieldAll(cands, base, recursive, max_depth, out) ==
  IF cands = <<>> THEN [raised |-> "", list |-> out]
  ELSE IF ~IsPrefix(Root, Head(cands)) THEN [raised |-> "ValueError", list |-> out]
  ELSE YieldAll(Tail(cands), base, recursive, max_depth,
                IF /\ should_include(Head(cands))
                   /\ (recursive => within_depth(Head(cands), base, max_depth))
                THEN Append(out, Head(cands)) ELSE out)

IterBase(folder) == IF folder # <<>> THEN Join(Root, folder) ELSE Root

\* Vault.iter_notes
iter_notes(f, folder, recursive, max_depth) ==
  LET base == IterBase(folder)
  IN IF ~IsDir(f, base) THEN [raised |-> "", list |-> <<>>]
     ELSE IF recursive
          THEN YieldAll(SortPaths(RGlob(f, base, <<"*">> \o MD)),
                        base, TRUE, max_depth, <<>>)
          ELSE YieldAll(SortPaths({ p \in IterDir(f, base) :
                                      IsFile(f, p) /\ HasMdSuffix(Last(p)) }),
                        base, FALSE, max_depth, <<>>)

\* Vault.iter_entries
iter_entries(f, folder, recursive, max_depth) ==
  LET base == IterBase(folder)
  IN IF ~IsDir(f, base) THEN [raised |-> "", list |-> <<>>]
     ELSE IF recursive
          THEN YieldAll(SortPaths(RGlob(f, base, <<"*">>)), base, TRUE, max_depth, <<>>)
          ELSE YieldAll(SortPaths(IterDir(f, base)), base, FALSE, max_depth, <<>>)

----------------------------------------------------------------------------
(* links.py *)

\* s has the literal lit at position i
At(s, i, lit) == i >= 1 /\ i + Len(lit) - 1 <= Len(s) /\ SubSeq(s, i, i + Len(lit) - 1) = lit

\* The characters the three classes of WIKILINK_PATTERN exclude: [^\]|#^], [^\]|], [^\]]
TargetExcludesNoCaret == {"]", "|", "#"}

TargetExcludes == {"]", "|", "#", "^"}

HeadingExcludes == {"]", "|"}

AliasExcludes == {"]"}

\* where a greedy run of [^excluded] that starts at i stops (the first index not in it)
RECURSIVE RunEnd(_, _, _)
RunEnd(s, i, excluded) ==
  IF i <= Len(s) /\ s[i] \notin excluded THEN RunEnd(s, i + 1, excluded) ELSE i

\* WIKILINK_PATTERN matched at position i:
\*   !?\[\[([^\]|#^]+)(?:#[^\]|]*)?(?:\|[^\]]+)?\]\]
\* Each class excludes every character that may follow its run, so the greedy runs
\* are the only way to match and backtracking finds nothing else.
MatchAt(s, i) ==
  LET open == IF At(s, i, <<"!">>) THEN i + 1 ELSE i
      t0 == open + 2
      t1 == RunEnd(s, t0, TargetExcludes)
      h1 == IF At(s, t1, <<"#">>) THEN RunEnd(s, t1 + 1, HeadingExcludes) ELSE t1
      a1 == IF At(s, h1, <<"|">>) /\ RunEnd(s, h1 + 1, AliasExcludes) > h1 + 1
            THEN RunEnd(s, h1 + 1, AliasExcludes) ELSE h1
  IN IF At(s, open, <<"[", "[">>) /\ t1 > t0 /\ At(s, a1, <<"]", "]">>)
     THEN [matched |-> TRUE, target |-> SubSeq(s, t0, t1 - 1), end |-> a1 + 2]
     ELSE [matched |-> FALSE, target |-> <<>>, end |-> i]

\* WIKILINK_PATTERN.findall from position i: leftmost matches, none overlapping
RECURSIVE FindAll(_, _)
FindAll(s, i) ==
  IF i > Len(s) THEN <<>>
  ELSE IF MatchAt(s, i).matched
       THEN <<MatchAt(s, i).target>> \o FindAll(s, MatchAt(s, i).end)
  ELSE FindAll(s, i + 1)

\* parse_wikilinks
parse_wikilinks(content) == FindAll(content, 1)

\* A byte that is not valid UTF-8, as it stands in a file's content
BadByte == "\\xff"

\* Reading in text mode with newline=None: "\r\n" and a lone "\r" come out as "\n"
RECURSIVE UniversalNewlines(_)
UniversalNewlines(s) ==
  IF s = <<>> THEN <<>>
  ELSE IF Head(s) = "\r"
       THEN <<"\n">> \o UniversalNewlines(IF Len(s) > 1 /\ s[2] = "\n"
                                          THEN SubSeq(s, 3, Len(s)) ELSE Tail(s))
  ELSE <<Head(s)>> \o UniversalNewlines(Tail(s))

\* Path.read_text(encoding="utf-8"): a directory or a missing file raises OSError, a
\* file holding bytes that are not UTF-8 raises UnicodeDecodeError
ReadText(f, p) ==
  LET st == Stat(f, p)
  IN IF st.err = "" /\ f[st.path].kind = "file"
     THEN IF \E k \in 1..Len(f[st.path].content) : f[st.path].content[k] = BadByte
          THEN [raised |-> "UnicodeDecodeError", text |-> <<>>]
          ELSE [raised |-> "", text |-> UniversalNewlines(f[st.path].content)]
     ELSE [raised |-> "OSError", text |-> <<>>]

\* PurePath.stem: the name up to its last dot, unless that dot is first or last
Stem(name) ==
  LET dots == { i \in 1..Len(name) : name[i] = "." }
      last == CHOOSE i \in dots : \A j \in dots : j <= i
  IN IF dots # {} /\ last > 1 /\ last < Len(name) THEN SubSeq(name, 1, last - 1) ELSE name

\* str(path.relative_to(vault.root))
RECURSIVE JoinSlash(_)
JoinSlash(parts) ==
  IF parts = <<>> THEN <<".">>
  ELSE IF Len(parts) = 1 THEN parts[1]
  ELSE parts[1] \o <<"/">> \o JoinSlash(Tail(parts))

RelStr(path) == JoinSlash(RelativeToRoot(path))

\* The targets as they were found, repeated ones kept
UniqueKeepAll(targets, seen) == targets

\* get_outgoing_links, lines 29-36: the targets without those equal up to case to an
\* earlier one
RECURSIVE Unique(_, _)
Unique(targets, seen) ==
  IF targets = <<>> THEN <<>>
  ELSE IF LowerStr(Head(targets)) \in seen THEN Unique(Tail(targets), seen)
  ELSE <<Head(targets)>> \o Unique(Tail(targets), seen \cup {LowerStr(Head(targets))})

\* get_outgoing_links: the note and, for each target, the path it resolves to (vault
\* relative) or the broken-link marker
get_outgoing_links(f, path, scan) ==
  LET resolved == resolve_path(f, path, scan)
  IN IF ~resolved.some THEN [status |-> "not_found", note |-> <<>>, links |-> <<>>]
     ELSE LET read == ReadText(f, resolved.path)
              unique == Unique(parse_wikilinks(read.text), {})
          IN IF read.raised # "" THEN [status |-> read.raised, note |-> <<>>, links |-> <<>>]
             ELSE IF unique = <<>>
                  THEN [status |-> "no_links", note |-> RelStr(resolved.path), links |-> <<>>]
             ELSE [status |-> "ok", note |-> RelStr(resolved.path),
                   links |-> [i \in 1..Len(unique) |->
                     LET to == resolve_path(f, unique[i], scan)
                     IN [target |-> unique[i], broken |-> ~to.some,
                         path |-> IF to.some THEN RelStr(to.path) ELSE <<>>]]]

\* str.splitlines() for texts whose only line break is "\n"
RECURSIVE SplitLines(_, _)
SplitLines(s, cur) ==
  IF s = <<>> THEN (IF cur = <<>> THEN <<>> ELSE <<cur>>)
  ELSE IF Head(s) = "\n" THEN <<cur>> \o SplitLines(Tail(s), <<>>)
  ELSE SplitLines(Tail(s), Append(cur, Head(s)))

\* `sub in s`
Contains(s, sub) == \E i \in 1..(Len(s) + 1) : At(s, i, sub) \/ sub = <<>>

\* str.strip()
StripSpace(s) ==
  LET keep == {i \in 1..Len(s) : s[i] \notin {" ", "\n", "\r"}}
  IN IF keep = {} THEN <<>>
     ELSE SubSeq(s, CHOOSE i \in keep : \A j \in keep : i <= j,
                    CHOOSE i \in keep : \A j \in keep : i >= j)

\* The targets equal to the note's name, folder-qualified ones left out
LinksToExact(targets, target_name) ==
  { i \in 1..Len(targets) : LowerStr(targets[i]) = LowerStr(target_name) }

\* get_backlinks, lines 72-76: the first target that names the note
LinksTo(targets, target_name) ==
  { i \in 1..Len(targets) :
      \/ LowerStr(targets[i]) = LowerStr(target_name)
      \/ EndsWith(LowerStr(targets[i]), <<"/">> \o LowerStr(target_name)) }

\* get_backlinks, lines 77-85: the entry reported for a note that links to the target
BacklinkEntry(note, content, t) ==
  LET lines == SplitLines(content, <<>>)
      hits == { i \in 1..Len(lines) : Contains(lines[i], <<"[", "[">> \o t) }
  IN IF hits = {} THEN [note |-> RelStr(note), context |-> FALSE, line |-> <<>>]
     ELSE [note |-> RelStr(note), context |-> TRUE,
           line |-> StripSpace(lines[CHOOSE i \in hits : \A j \in hits : i <= j])]

\* get_backlinks, lines 62-85: the scan of the notes
RECURSIVE ScanBacklinks(_, _, _, _)
ScanBacklinks(f, notes, resolved, target_name) ==
  IF notes = <<>> THEN <<>>
  ELSE LET note == Head(notes)
           read == ReadText(f, note)
           targets == parse_wikilinks(read.text)
           hits == LinksTo(targets, target_name)
           rest == ScanBacklinks(f, Tail(notes), resolved, target_name)
       IN IF note = resolved \/ read.raised # "" \/ hits = {} THEN rest
          ELSE <<BacklinkEntry(note, read.text,
                               targets[CHOOSE i \in hits : \A j \in hits : i <= j])>> \o rest

\* The depth ceiling of the whole-vault scans
ScanDepth == 100

\* get_backlinks: the target (vault relative) and the entries found
get_backlinks(f, path, scan) ==
  LET resolved == resolve_path(f, path, scan)
  IN IF ~resolved.some
     THEN [status |-> "not_found", target |-> <<>>, count |-> 0, list |-> <<>>]
     ELSE LET results == ScanBacklinks(f, iter_notes(f, <<>>, TRUE, ScanDepth).list,
                                       resolved.path, Stem(Last(resolved.path)))
          IN [status |-> IF results = <<>> THEN "none" ELSE "ok",
              target |-> RelStr(resolved.path), count |-> Len(results),
              list |-> results]

\* A pattern that takes "]]" for the only delimiter
RenameMatchClosed(s, i, old_name) ==
  IF /\ At(s, i, <<"[", "[">>)
     /\ LowerStr(SubSeq(s, i + 2, i + 1 + Len(old_name))) = LowerStr(old_name)
     /\ At(s, i + 2 + Len(old_name), <<"]", "]">>)
  THEN <<"]", "]">> ELSE <<>>

\* The pattern of update_wikilinks matches at i: "[[" and old_name (letter case
\* ignored) followed by "]]", "|" or "#".  The delimiter found, or <<>> when none.
RenameMatch(s, i, old_name) ==
  LET j == i + 2 + Len(old_name)
  IN IF /\ At(s, i, <<"[", "[">>)
        /\ j - 1 <= Len(s)
        /\ LowerStr(SubSeq(s, i + 2, j - 1)) = LowerStr(old_name)
     THEN IF At(s, j, <<"]", "]">>) THEN <<"]", "]">>
          ELSE IF At(s, j, <<"|">>) THEN <<"|">>
          ELSE IF At(s, j, <<"#">>) THEN <<"#">>
          ELSE <<>>
     ELSE <<>>

\* pattern.sub(r"\g<1>" + new_name + r"\2", content): the matches from left to right,
\* none overlapping another
RECURSIVE PatternSub(_, _, _, _)
PatternSub(s, i, old_name, new_name) ==
  IF i > Len(s) THEN <<>>
  ELSE LET delim == RenameMatch(s, i, old_name)
       IN IF delim # <<>>
          THEN <<"[", "[">> \o new_name \o delim
                 \o PatternSub(s, i + 2 + Len(old_name) + Len(delim), old_name, new_name)
          ELSE <<s[i]>> \o PatternSub(s, i + 1, old_name, new_name)

\* Path.exists()
Exists(f, p) == Stat(f, p).err = ""

\* Where the directory entry named by p lives: the canonical parent and the name (the
\* last component itself is not followed)
EntryOf(f, p) ==
  LET s == Stat(f, Parent(p))
  IN IF p = <<>> \/ s.err # "" THEN [err |-> "ENOENT", path |-> <<>>]
     ELSE IF f[s.path].kind # "dir" THEN [err |-> "ENOTDIR", path |-> <<>>]
     ELSE [err |-> "", path |-> Append(s.path, Last(p))]

\* A write_text that creates a missing file but leaves an existing one as it is
WriteTextCreateOnly(f, p, c) ==
  LET e == EntryOf(f, p)
  IN IF e.err # "" THEN [raised |-> "OSError", fs |-> f]
     ELSE IF e.path \notin DOMAIN f THEN [raised |-> "", fs |-> (e.path :> FileNode(c)) @@ f]
     ELSE IF f[e.path].kind = "dir" THEN [raised |-> "OSError", fs |-> f]
     ELSE [raised |-> "", fs |-> f]

\* Path.write_text: open(p, "w") follows symlinks, creates the file when it is missing
\* and replaces its content when it exists
RECURSIVE WriteText(_, _, _)
WriteText(f, p, c) ==
  LET e == EntryOf(f, p)
  IN IF e.err # "" THEN [raised |-> "OSError", fs |-> f]
     ELSE IF e.path \notin DOMAIN f THEN [raised |-> "", fs |-> (e.path :> FileNode(c)) @@ f]
     ELSE IF f[e.path].kind = "dir" THEN [raised |-> "OSError", fs |-> f]
     ELSE IF f[e.path].kind = "link" THEN WriteText(f, f[e.path].target, c)
     ELSE [raised |-> "", fs |-> [f EXCEPT ![e.path] = FileNode(c)]]

\* f without the entries in gone
Without(f, gone) == [q \in DOMAIN f \ gone |-> f[q]]

\* shutil.move(src, dst) within one filesystem, dst not existing: os.rename of the
\* entry src (a symlink is moved itself, a directory with all below it)
ShutilMove(f, src, dst) ==
  LET s == EntryOf(f, src)
      d == EntryOf(f, dst)
  IN IF s.err # "" \/ d.err # "" \/ s.path \notin DOMAIN f
     THEN [raised |-> "OSError", fs |-> f]
     ELSE LET moved == { q \in DOMAIN f : IsPrefix(s.path, q) }
              place(q) == d.path \o SubSeq(q, Len(s.path) + 1, Len(q))
          IN [raised |-> "",
              fs |-> [q \in (DOMAIN f \ moved) \cup { place(m) : m \in moved } |->
                        IF \E m \in moved : place(m) = q
                        THEN f[CHOOSE m \in moved : place(m) = q]
                        ELSE f[q]]]

\* Path.unlink(): removes a file or a symlink, never a directory
Unlink(f, p) ==
  LET e == EntryOf(f, p)
  IN IF e.err # "" \/ e.path \notin DOMAIN f \/ f[e.path].kind = "dir"
     THEN [raised |-> "OSError", fs |-> f]
     ELSE [raised |-> "", fs |-> Without(f, {e.path})]

\* update_wikilinks, lines 101-110: the rewrite of every note, one that cannot be read
\* being skipped
RECURSIVE UpdateScan(_, _, _, _, _)
UpdateScan(f, notes, old_name, new_name, updated) ==
  IF notes = <<>> THEN [raised |-> "", fs |-> f, updated |-> updated]
  ELSE LET read == ReadText(f, Head(notes))
           new_content == PatternSub(read.text, 1, old_name, new_name)
           written == WriteText(f, Head(notes), new_content)
       IN IF read.raised # "" \/ new_content = read.text
          THEN UpdateScan(f, Tail(notes), old_name, new_name, updated)
          ELSE IF written.raised # ""
               THEN [raised |-> written.raised, fs |-> f, updated |-> updated]
          ELSE UpdateScan(written.fs, Tail(notes), old_name, new_name, updated + 1)

\* update_wikilinks
update_wikilinks(f, old_name, new_name) ==
  UpdateScan(f, iter_notes(f, <<>>, TRUE, ScanDepth).list, old_name, new_name, 0)

----------------------------------------------------------------------------
(* notes.py *)

\* write_note: "error" is the returned path-escape message, "raised" an exception
\* that leaves the tool
write_note(f, path, content) ==
  LET ens == ensure_path(f, path)
      written == WriteText(ens.fs, ens.path, content)
  IN IF ens.raised = "ValueError" THEN [status |-> "error", path |-> <<>>, fs |-> f]
     ELSE IF ens.raised # "" THEN [status |-> "raised", path |-> <<>>, fs |-> ens.fs]
     ELSE IF written.raised # "" THEN [status |-> "raised", path |-> <<>>, fs |-> ens.fs]
     ELSE [status |-> "ok", path |-> ens.path, fs |-> written.fs]

\* str.replace(old_text, new_text) of every occurrence, from the left
RECURSIVE ReplaceAll(_, _, _)
ReplaceAll(s, old_text, new_text) ==
  IF old_text = <<>> THEN new_text \o s
  ELSE IF s = <<>> THEN <<>>
  ELSE IF At(s, 1, old_text)
       THEN new_text \o ReplaceAll(SubSeq(s, Len(old_text) + 1, Len(s)), old_text, new_text)
  ELSE <<Head(s)>> \o ReplaceAll(Tail(s), old_text, new_text)

\* str.replace(old_text, new_text, 1): the first occurrence only; the empty old_text
\* occurs before the first character
ReplaceFirst(s, old_text, new_text) ==
  IF old_text = <<>> THEN new_text \o s
  ELSE LET at == { i \in 1..Len(s) : At(s, i, old_text) }
           i == CHOOSE x \in at : \A y \in at : x <= y
       IN IF at = {} THEN s
          ELSE SubSeq(s, 1, i - 1) \o new_text \o SubSeq(s, i + Len(old_text), Len(s))

\* edit_note, lines 73-79: the edits applied in order; missing is the index of the
\* first edit whose oldText is not in the text, 0 when there is none
RECURSIVE ApplyEdits(_, _, _)
ApplyEdits(modified, edits, k) ==
  IF k > Len(edits) THEN [missing |-> 0, text |-> modified]
  ELSE IF ~Contains(modified, edits[k].oldText) THEN [missing |-> k, text |-> modified]
  ELSE ApplyEdits(ReplaceFirst(modified, edits[k].oldText, edits[k].newText), edits, k + 1)

\* edit_note
edit_note(f, path, edits, dry_run, scan) ==
  LET resolved == resolve_path(f, path, scan)
      read == ReadText(f, resolved.path)
      applied == ApplyEdits(read.text, edits, 1)
  IN IF ~resolved.some THEN [status |-> "not_found", fs |-> f]
     ELSE IF read.raised # "" THEN [status |-> "raised", fs |-> f]
     ELSE IF applied.missing # 0 THEN [status |-> "missing", fs |-> f]
     ELSE IF applied.text = read.text THEN [status |-> "no_changes", fs |-> f]
     ELSE IF dry_run THEN [status |-> "dry_run", fs |-> f]
     ELSE [status |-> "diff", fs |-> WriteText(f, resolved.path, applied.text).fs]

\* PurePath.suffix: what the stem leaves of the name
Suffix(name) == SubSeq(name, Len(Stem(name)) + 1, Len(name))

\* str(counter)
RECURSIVE DecimalStr(_)
DecimalStr(n) ==
  LET digit == <<"0", "1", "2", "3", "4", "5", "6", "7", "8", "9">>[(n % 10) + 1]
  IN IF n < 10 THEN <<digit>> ELSE Append(DecimalStr(n \div 10), digit)

\* The name of the note in the trash, taken or not
TrashDestOverwrite(f, trash, dest, name, counter) == dest

\* delete_note, lines 212-217: the first name in the trash that is not taken
RECURSIVE TrashDest(_, _, _, _, _)
TrashDest(f, trash, dest, name, counter) ==
  IF ~Exists(f, dest) THEN dest
  ELSE TrashDest(f, trash,
                 Append(trash, Stem(name) \o <<"_">> \o DecimalStr(counter) \o Suffix(name)),
                 name, counter + 1)

\* delete_note
delete_note(f, path, confirm, scan) ==
  LET resolved == resolve_path(f, path, scan)
      trash == Append(Root, <<".", "t", "r", "a", "s", "h">>)
      dest == TrashDest(f, trash, Append(trash, Last(resolved.path)), Last(resolved.path), 1)
      moved == ShutilMove(f, resolved.path, dest)
      unlinked == Unlink(f, resolved.path)
  IN IF ~confirm THEN [status |-> "unconfirmed", path |-> <<>>, dest |-> <<>>, fs |-> f]
     ELSE IF ~resolved.some
          THEN [status |-> "not_found", path |-> <<>>, dest |-> <<>>, fs |-> f]
     ELSE IF IsDir(f, trash)
          THEN [status |-> IF moved.raised = "" THEN "trashed" ELSE "raised",
                path |-> resolved.path, dest |-> dest, fs |-> moved.fs]
     ELSE [status |-> IF unlinked.raised = "" THEN "deleted" ELSE "raised",
           path |-> resolved.path, dest |-> <<>>, fs |-> unlinked.fs]

\* move_note, lines 248-262: the rewrite of every note but the moved one; a note that
\* cannot be read ends the walk with its exception
RECURSIVE MoveRewrite(_, _, _, _, _, _)
MoveRewrite(f, notes, resolved_dst, old_name, new_name, updated_count) ==
  IF notes = <<>> THEN [raised |-> "", fs |-> f, updated |-> updated_count]
  ELSE IF Head(notes) = resolved_dst
       THEN MoveRewrite(f, Tail(notes), resolved_dst, old_name, new_name, updated_count)
  ELSE LET read == ReadText(f, Head(notes))
           new_content == PatternSub(read.text, 1, old_name, new_name)
           written == WriteText(f, Head(notes), new_content)
       IN IF read.raised # "" THEN [raised |-> read.raised, fs |-> f, updated |-> updated_count]
          ELSE IF new_content = read.text
               THEN MoveRewrite(f, Tail(notes), resolved_dst, old_name, new_name,
                                updated_count)
          ELSE IF written.raised # ""
               THEN [raised |-> written.raised, fs |-> f, updated |-> updated_count]
          ELSE MoveRewrite(written.fs, Tail(notes), resolved_dst, old_name, new_name,
                           updated_count + 1)

\* What move_note leaves when it ends before the move: its status and the filesystem
MoveEnded(status, f) == [status |-> status, fs |-> f, src |-> <<>>, dst |-> <<>>, updated |-> 0]

\* A scan that rewrites whether or not the name has changed
MoveScanAlways(f, resolved_src, resolved_dst) ==
  LET scanned == MoveRewrite(f, iter_notes(f, <<>>, TRUE, ScanDepth).list, resolved_dst,
                             Stem(Last(resolved_src)), Stem(Last(resolved_dst)), 0)
  IN [status |-> IF scanned.raised = "" THEN "ok" ELSE "scan_raised",
      fs |-> scanned.fs, src |-> resolved_src, dst |-> resolved_dst,
      updated |-> scanned.updated]

\* move_note, lines 239-271: the wikilinks rewritten after the move
MoveScan(f, resolved_src, resolved_dst) ==
  LET old_name == Stem(Last(resolved_src))
      new_name == Stem(Last(resolved_dst))
      scanned == MoveRewrite(f, iter_notes(f, <<>>, TRUE, ScanDepth).list,
                             resolved_dst, old_name, new_name, 0)
  IN IF old_name = new_name
     THEN [status |-> "ok", fs |-> f, src |-> resolved_src, dst |-> resolved_dst,
           updated |-> 0]
     ELSE [status |-> IF scanned.raised = "" THEN "ok" ELSE "scan_raised",
           fs |-> scanned.fs, src |-> resolved_src, dst |-> resolved_dst,
           updated |-> scanned.updated]

\* move_note, lines 236-243: the destination must not exist; the file is moved
MoveFile(f, resolved_src, resolved_dst) ==
  LET moved == ShutilMove(f, resolved_src, resolved_dst)
  IN IF Exists(f, resolved_dst) THEN MoveEnded("exists", f)
     ELSE IF moved.raised # "" THEN MoveEnded("raised", f)
     ELSE MoveScan(moved.fs, resolved_src, resolved_dst)

\* move_note, lines 231-234: the destination path, its parent directories made
MoveTo(f, resolved_src, destination) ==
  LET ens == ensure_path(f, destination)
  IN IF ens.raised = "ValueError" THEN MoveEnded("escape", f)
     ELSE IF ens.raised # "" THEN MoveEnded("raised", ens.fs)
     ELSE MoveFile(ens.fs, resolved_src, ens.path)

\* move_note: "not_found", "escape" and "exists" are the returned errors, "raised" an
\* exception before the scan and "scan_raised" one during it
move_note(f, source, destination, scan) ==
  LET resolved_src == resolve_path(f, source, scan)
  IN IF ~resolved_src.some THEN MoveEnded("not_found", f)
     ELSE MoveTo(f, resolved_src.path, destination)

----------------------------------------------------------------------------
(* The tools that only read: notes.read_note, search.py, and list_notes and
   get_frontmatter of server.py.  Each result carries the filesystem the tool leaves. *)

\* frontmatter.parse, lines 11-12: a text that does not begin with "---" has no
\* frontmatter block.  No text of the model begins with "---".
parse(content) == [meta |-> {}, body |-> content]

\* mimetypes.guess_type for the names of the model: by the extension, letter case
\* ignored; the type "" is None
GuessType(name) ==
  IF LowerStr(Suffix(name)) = MD THEN [type |-> "text", subtype |-> "markdown"]
  ELSE IF LowerStr(Suffix(name)) = <<".", "p", "n", "g">>
       THEN [type |-> "image", subtype |-> "png"]
  ELSE [type |-> "", subtype |-> ""]

\* The length from which read_note truncates, and the notice it puts after the text
\* it keeps
TruncateAt == 1000000
TruncatedNotice == <<"\n", "\n", "[Truncated]">>

\* A read_note that prepares the path of the note as a write would
read_note_preparing(f, path, include_frontmatter, scan) ==
  [status |-> "not_found", text |-> <<>>, fs |-> ensure_path(f, path).fs]

\* read_note: "not_found" is the returned error, "binary" either binary-file message,
\* "raised" an exception that leaves the tool
read_note(f, path, include_frontmatter, scan) ==
  LET resolved == resolve_path(f, path, scan)
      mime == GuessType(Last(resolved.path))
      read == ReadText(f, resolved.path)
      content == IF Len(read.text) > TruncateAt
                 THEN SubSeq(read.text, 1, TruncateAt) \o TruncatedNotice
                 ELSE read.text
  IN IF ~resolved.some THEN [status |-> "not_found", text |-> <<>>, fs |-> f]
     ELSE IF /\ mime.type # ""
             /\ mime.type # "text"
             /\ Suffix(Last(resolved.path)) # MD
          THEN [status |-> IF Exists(f, resolved.path) THEN "binary" ELSE "raised",
                text |-> <<>>, fs |-> f]
     ELSE IF read.raised = "UnicodeDecodeError"
          THEN [status |-> "binary", text |-> <<>>, fs |-> f]
     ELSE IF read.raised # "" THEN [status |-> "raised", text |-> <<>>, fs |-> f]
     ELSE IF ~include_frontmatter THEN [status |-> "ok", text |-> content, fs |-> f]
     ELSE [status |-> "ok", text |-> parse(content).body, fs |-> f]

\* search_notes, lines 24-34: a note's entry, with its first three matching lines
SearchEntry(note, lines, matches) ==
  [note |-> RelStr(note),
   lines |-> { [line_num |-> i, line_text |-> StripSpace(lines[i])] :
               i \in { m \in matches : Cardinality({ k \in matches : k < m }) < 3 } }]

\* search_notes, lines 18-37: the scan; an unreadable note is passed over before the
\* count of results is looked at
RECURSIVE SearchScan(_, _, _, _, _)
SearchScan(f, notes, query_lower, max_results, results) ==
  IF notes = <<>> THEN results
  ELSE LET read == ReadText(f, Head(notes))
           lines == SplitLines(read.text, <<>>)
           matches == { i \in 1..Len(lines) : Contains(LowerStr(lines[i]), query_lower) }
           found == IF matches # {}
                    THEN Append(results, SearchEntry(Head(notes), lines, matches))
                    ELSE results
       IN IF read.raised # ""
          THEN SearchScan(f, Tail(notes), query_lower, max_results, results)
          ELSE IF Len(found) >= max_results THEN found
          ELSE SearchScan(f, Tail(notes), query_lower, max_results, found)

\* search_notes
search_notes(f, query, folder, max_results) ==
  LET notes == iter_notes(f, folder, TRUE, ScanDepth)
      results == SearchScan(f, notes.list, LowerStr(query), max_results, <<>>)
  IN IF query = <<>> THEN [status |-> "error", list |-> <<>>, fs |-> f]
     ELSE IF notes.raised # "" THEN [status |-> "raised", list |-> <<>>, fs |-> f]
     ELSE [status |-> IF results = <<>> THEN "none" ELSE "ok", list |-> results, fs |-> f]

\* str.lstrip("#")
RECURSIVE LStripHash(_)
LStripHash(s) == IF s # <<>> /\ Head(s) = "#" THEN LStripHash(Tail(s)) ELSE s

\* \w for the characters of the model
WordChars ==
  { Ascii[i] : i \in DOMAIN Ascii } \ {"\n", "\r", " ", "!", "#", "*", ".", "/", "[", "]", "^", "|"}

\* inline_pattern.search(content): "#" and the tag, letter case ignored, with no word
\* character before or after
InlineTag(content, tag) ==
  \E i \in 1..Len(content) :
    /\ At(LowerStr(content), i, <<"#">> \o LowerStr(tag))
    /\ (i = 1 \/ content[i - 1] \notin WordChars)
    /\ (i + Len(tag) = Len(content) \/ content[i + Len(tag) + 1] \notin WordChars)

\* search_by_tag, lines 60-84: the scan.  The notes have no frontmatter, so the tags of
\* a note are its inline ones.
RECURSIVE TagScan(_, _, _)
TagScan(f, notes, tag) ==
  IF notes = <<>> THEN <<>>
  ELSE LET read == ReadText(f, Head(notes))
           meta == parse(read.text).meta
       IN IF read.raised = "" /\ (meta # {} \/ InlineTag(read.text, tag))
          THEN <<RelStr(Head(notes))>> \o TagScan(f, Tail(notes), tag)
          ELSE TagScan(f, Tail(notes), tag)

\* search_by_tag
search_by_tag(f, tag) ==
  LET stripped == LStripHash(tag)
      notes == iter_notes(f, <<>>, TRUE, ScanDepth)
      results == TagScan(f, notes.list, stripped)
  IN IF stripped = <<>> THEN [status |-> "error", list |-> <<>>, fs |-> f]
     ELSE IF notes.raised # "" THEN [status |-> "raised", list |-> <<>>, fs |-> f]
     ELSE [status |-> IF results = <<>> THEN "none" ELSE "ok", list |-> results, fs |-> f]

\* list_notes, lines 184-197: the line of an entry; size is st_size, -1 where stat()
\* raises (a symlink that leads nowhere).  The model keeps no modification times.
ListLine(f, entry) ==
  LET st == Stat(f, entry)
  IN IF IsDir(f, entry) THEN [kind |-> "DIR", rel |-> RelStr(entry), size |-> 0]
     ELSE [kind |-> IF Suffix(Last(entry)) = MD THEN "NOTE" ELSE "FILE",
           rel |-> RelStr(entry),
           size |-> IF st.err = "" THEN Len(f[st.path].content) ELSE -1]

\* list_notes
list_notes(f, folder, recursive, max_depth) ==
  LET entries == iter_entries(f, folder, recursive, max_depth)
      lines == [i \in 1..Len(entries.list) |-> ListLine(f, entries.list[i])]
  IN IF entries.raised # "" THEN [status |-> "raised", list |-> <<>>, fs |-> f]
     ELSE IF entries.list = <<>> THEN [status |-> "none", list |-> <<>>, fs |-> f]
     ELSE IF \E i \in 1..Len(lines) : lines[i].size = -1
          THEN [status |-> "raised", list |-> <<>>, fs |-> f]
     ELSE [status |-> "ok", list |-> lines, fs |-> f]

\* get_frontmatter: a read that fails leaves the tool as an exception
get_frontmatter(f, path, scan) ==
  LET resolved == resolve_path(f, path, scan)
      read == ReadText(f, resolved.path)
  IN IF ~resolved.some THEN [status |-> "not_found", fs |-> f]
     ELSE IF read.raised # "" THEN [status |-> "raised", fs |-> f]
     ELSE IF parse(read.text).meta = {} THEN [status |-> "none", fs |-> f]
     ELSE [status |-> "ok", fs |-> f]

----------------------------------------------------------------------------
(* Vaults and inputs *)

nV == <<"v">>
nVV == <<"v", "v">>
nZ == <<"z">>
nA == <<"a">>
nB == <<"b">>
nC == <<"c">>
nN == <<"n">>
nNmd == <<"n", ".", "m", "d">>
nUpperNmd == <<"N", ".", "m", "d">>
nTrash == <<".", "t", "r", "a", "s", "h">>

\* the function with domain {p} (nothing when present is false)
Entry(present, p, node) == IF present THEN p :> node ELSE <<>>

\* File contents that tell the files of a vault apart
InRoot == <<"r">>
InA == <<"a">>
InB == <<"b">>
InTrash == <<"t">>
NoExt == <<"e">>
Upper == <<"u">>
Sibling == <<"s">>
Outside == <<"z">>

\* The directory tree around and inside the vault /v:
\*   /z/n.md    outside the vault (always there)
\*   /vv/n.md   a sibling directory whose name begins with the root's name
\*   /v/n.md, /v/n, /v/a/n.md
\* and one of: /v/N.md as a file, a directory or a symlink to a missing file;
\* /v/.trash/n.md; /v/b/n.md as a file or a symlink to /z/n.md; /v/b as a symlink to
\* /z; the two files /v/b/N.md and /v/c/N.md; a file /v/a/.md beside /v/a/n.md
VaultTree(vv, n, noext, a, extra) ==
     (<<>> :> DirNode) @@ (<<nV>> :> DirNode)
  @@ (<<nZ>> :> DirNode) @@ (<<nZ, nNmd>> :> FileNode(Outside))
  @@ Entry(vv, <<nVV>>, DirNode) @@ Entry(vv, <<nVV, nNmd>>, FileNode(Sibling))
  @@ Entry(n, <<nV, nNmd>>, FileNode(InRoot))
  @@ Entry(noext, <<nV, nN>>, FileNode(NoExt))
  @@ Entry(a, <<nV, nA>>, DirNode) @@ Entry(a, <<nV, nA, nNmd>>, FileNode(InA))
  @@ Entry(extra = "upperfile", <<nV, nUpperNmd>>, FileNode(Upper))
  @@ Entry(extra = "upperdir", <<nV, nUpperNmd>>, DirNode)
  @@ Entry(extra = "dangling", <<nV, nUpperNmd>>, LinkNode(<<nV, <<"g">>>>))
  @@ Entry(extra \in {"trash", "trashb"}, <<nV, nTrash>>, DirNode)
  @@ Entry(extra \in {"trash", "trashb"}, <<nV, nTrash, nNmd>>, FileNode(InTrash))
  @@ Entry(extra \in {"bnote", "bnotelink", "trashb", "upperpair"}, <<nV, nB>>, DirNode)
  @@ Entry(extra \in {"bnote", "trashb"}, <<nV, nB, nNmd>>, FileNode(InB))
  @@ Entry(extra = "bnotelink", <<nV, nB, nNmd>>, LinkNode(<<nZ, nNmd>>))
  @@ Entry(extra = "bdirlink", <<nV, nB>>, LinkNode(<<nZ>>))
  @@ Entry(extra = "upperpair", <<nV, nB, nUpperNmd>>, FileNode(InB))
  @@ Entry(extra = "upperpair", <<nV, nC>>, DirNode)
  @@ Entry(extra = "upperpair", <<nV, nC, nUpperNmd>>, FileNode(Upper))
  @@ Entry(extra = "dotmd" /\ a, <<nV, nA, MD>>, FileNode(NoExt))

Extras ==
  { "none", "upperfile", "upperdir", "dangling", "trash", "trashb", "bnote",
    "bnotelink", "bdirlink", "upperpair", "dotmd" }

Vaults ==
  { VaultTree(vv, n, noext, a, extra) :
      vv \in BOOLEAN, n \in BOOLEAN, noext \in BOOLEAN, a \in BOOLEAN, extra \in Extras }

\* References passed to resolve_path
Refs ==
  { <<"n">>, nNmd, <<"N">>, <<"x">>, <<>>,
    <<"a", "/", "n">>, <<"b", "/", "n">>, <<"n", "/">>, <<"/", "n">>, <<"a", "/">>,
    <<"a", "/", ".", ".", "/", "n">>,
    <<".", ".", "/", "v", "v", "/", "n">>,
    <<".", ".", "/", "z", "/", "n">>,
    <<"*">> }

\* References passed to ensure_path
NewRefs ==
  { <<"x">>, <<"c", "/", "x">>, <<"a", "/", "c", "/", "x">>,
    <<"c", "/", ".", ".", "/", "x">>,
    <<"n", ".", "m", "d", "/", "x">>,
    <<"b", "/", "c", "/", "x">>,
    <<".", ".", "/", "v", "v", "/", "c", "/", "x">>,
    <<".", ".", "/", "z", "/", "c", "/", "x">> }

\* Folder arguments of iter_notes and iter_entries
Folders ==
  { <<>>, <<"a">>, <<"b">>, <<".", ".">>,
    <<"a", "/", ".", ".", "/", ".", ".", "/", "v", "v">> }

Depths == {1, 2}

\* How many operations that change the filesystem a behaviour may perform
MaxOps == 1

Idle == [op |-> "idle"]

Init ==
  /\ fs \in Vaults
  /\ call = Idle
  /\ ret = Idle
  /\ nops = 0

\* A call of Vault.resolve_path
ResolvePath ==
  \E r \in Refs, scan \in {"asc", "desc"} :
    /\ call = Idle
    /\ call' = [op |-> "resolve_path", arg |-> r]
    /\ ret' = resolve_path(fs, r, scan)
    /\ UNCHANGED <<fs, nops>>

\* A call of Vault.ensure_path
EnsurePath ==
  \E r \in NewRefs :
    /\ call = Idle
    /\ nops < MaxOps
    /\ LET e == ensure_path(fs, r)
       IN /\ call' = [op |-> "ensure_path", arg |-> r, before |-> fs]
          /\ ret' = [raised |-> e.raised, path |-> e.path]
          /\ fs' = e.fs
    /\ nops' = nops + 1

\* A call of Vault.iter_notes, the generator run to its end
IterNotes ==
  \E folder \in Folders, recursive \in BOOLEAN, max_depth \in Depths :
    /\ call = Idle
    /\ recursive \/ max_depth = 2
    /\ call' = [op |-> "iter_notes", arg |-> folder, recursive |-> recursive,
                max_depth |-> max_depth]
    /\ ret' = iter_notes(fs, folder, recursive, max_depth)
    /\ UNCHANGED <<fs, nops>>

\* A call of Vault.iter_entries, the generator run to its end
IterEntries ==
  \E folder \in Folders, recursive \in BOOLEAN, max_depth \in Depths :
    /\ call = Idle
    /\ recursive \/ max_depth = 2
    /\ call' = [op |-> "iter_entries", arg |-> folder, recursive |-> recursive,
                max_depth |-> max_depth]
    /\ ret' = iter_entries(fs, folder, recursive, max_depth)
    /\ UNCHANGED <<fs, nops>>

\* Pieces of note text: wikilinks of every shape, and brackets that form none
Segments ==
  { <<"[", "[", "a", "]", "]">>,
    <<"[", "[", "b", "|", "c", "]", "]">>,
    <<"[", "[", "a", "#", "h", "]", "]">>,
    <<"[", "[", "b", "#", "^", "c", "]", "]">>,
    <<"!", "[", "[", "a", "]", "]">>,
    <<"[", "[", "a", "#", "h", "|", "c", "]", "]">>,
    <<"[", "[", "a", "^", "b", "]", "]">>,
    <<"[", "[", "a", "]", "b", "]", "]">>,
    <<"[", "[", "a", "|", "]", "]">>,
    <<"[", "[", "a">>, <<"[">>, <<"]">> }

\* How many segments a text is made of
MaxSegments == 3

RECURSIVE Concat(_)
Concat(segs) == IF segs = <<>> THEN <<>> ELSE Head(segs) \o Concat(Tail(segs))

Texts == { Concat(segs) : segs \in UNION { [1..n -> Segments] : n \in 0..MaxSegments } }

\* A call of parse_wikilinks
ParseWikilinks ==
  \E text \in Texts :
    /\ call = Idle
    /\ call' = [op |-> "parse_wikilinks", arg |-> text]
    /\ ret' = [list |-> parse_wikilinks(text)]
    /\ UNCHANGED <<fs, nops>>

nI == <<"i">>
nImd == <<"i", ".", "m", "d">>
nSmd == <<"s", ".", "m", "d">>

LinkI == <<"[", "[", "i", "]", "]">>
LinkS == <<"[", "[", "s", "]", "]">>

\* What the note /v/s.md may hold
SourceTexts ==
  { <<>>, LinkI, <<"[", "[", "I", "]", "]">>,
    <<"[", "[", "b", "/", "i", "]", "]">>,
    <<"[", "[", "x", "]", "]", " ">> \o LinkI,
    LinkI \o <<"[", "[", "x", "]", "]">> \o <<"[", "[", "I", "]", "]">>,
    <<"a", "\n", " ">> \o <<"!", "[", "[", "i", "#", "h", "|", "c", "]", "]", " ">>
      \o <<"[", "[", "s", "]", "]">> }

\* A vault of linked notes: /v/s.md, and notes named i.md in the root and in the
\* folders a and b (b's with a link back to s, or one to itself)
LinkTree(src, i, ai, bi) ==
     (<<>> :> DirNode) @@ (<<nV>> :> DirNode)
  @@ (<<nV, nSmd>> :> FileNode(src))
  @@ Entry(i, <<nV, nImd>>, FileNode(<<>>))
  @@ Entry(ai, <<nV, nA>>, DirNode) @@ Entry(ai, <<nV, nA, nImd>>, FileNode(LinkS))
  @@ Entry(bi # "absent", <<nV, nB>>, DirNode)
  @@ Entry(bi = "back", <<nV, nB, nImd>>, FileNode(LinkS))
  @@ Entry(bi = "self", <<nV, nB, nImd>>, FileNode(LinkI))

\* What a vault of linked notes may hold besides: a directory named like a note, a
\* note that is not UTF-8, a trash folder (empty, or with a note i.md that links to i),
\* a directory beside the vault whose name begins like the vault's, a file x without
\* the note extension, a note r.md with the line ends "\r\n" and "\r", a note q.md
\* with the folder-qualified link [[b/i]]
ExtraEntries(extra) ==
     Entry(extra = "dirnote", <<nV, <<"d", ".", "m", "d">> >>, DirNode)
  @@ Entry(extra = "binary", <<nV, <<"u", ".", "m", "d">> >>, FileNode(<<BadByte>>))
  @@ Entry(extra \in {"trash", "trashfull"}, <<nV, nTrash>>, DirNode)
  @@ Entry(extra = "trashfull", <<nV, nTrash, nImd>>, FileNode(LinkI \o <<"t">>))
  @@ Entry(extra = "sibling", <<nVV>>, DirNode)
  @@ Entry(extra = "noext", <<nV, <<"x">> >>, FileNode(<<"o">>))
  @@ Entry(extra = "crlf", <<nV, <<"r", ".", "m", "d">> >>,
           FileNode(LinkI \o <<"\r", "\n", "x", "\r", "[", "[", "I", "|", "c", "]", "]">>))
  @@ Entry(extra = "qualified", <<nV, <<"q", ".", "m", "d">> >>,
           FileNode(<<"[", "[", "b", "/", "i", "]", "]">>))

LinkVaults ==
  { LinkTree(src, i, ai, bi) @@ ExtraEntries(extra) :
      src \in SourceTexts, i \in BOOLEAN, ai \in BOOLEAN, bi \in {"absent", "back", "self"},
      extra \in {"none", "dirnote", "binary", "trashfull"} }

\* References passed to get_backlinks and get_outgoing_links
LinkRefs == { <<"i">>, <<"a", "/", "i">>, <<"b", "/", "i">>, <<"s">>, <<"x">> }

\* A call of get_backlinks
GetBacklinks ==
  \E path \in LinkRefs, scan \in {"asc", "desc"} :
    /\ call = Idle
    /\ call' = [op |-> "get_backlinks", arg |-> path, scan |-> scan]
    /\ ret' = get_backlinks(fs, path, scan)
    /\ UNCHANGED <<fs, nops>>

\* A call of get_outgoing_links
GetOutgoingLinks ==
  \E path \in LinkRefs, scan \in {"asc", "desc"} :
    /\ call = Idle
    /\ call' = [op |-> "get_outgoing_links", arg |-> path, scan |-> scan]
    /\ ret' = get_outgoing_links(fs, path, scan)
    /\ UNCHANGED <<fs, nops>>

\* What /v/s.md holds in the vaults that are edited
NoteSources ==
  { LinkI,
    <<"[", "[", "I", "|", "c", "]", "]", "\n", "[", "[", "i", "#", "h", "]", "]", " ">>
      \o <<"[", "[", "i", "i", "]", "]">> }

\* The vaults that are edited: s.md, a note i.md in the root, in b (linking to itself)
\* or in both, and one of the extras
NoteVaults ==
  { LinkTree(src, where \in {"root", "both"}, FALSE,
             IF where \in {"b", "both"} THEN "self" ELSE "absent") @@ ExtraEntries(extra) :
      src \in NoteSources, where \in {"root", "b", "both"},
      extra \in {"none", "dirnote", "binary", "trash", "trashfull", "sibling", "noext",
                 "crlf", "qualified"} }

\* Arguments of move_note
MoveSources == { <<"i">>, <<"s">>, <<"x">>, <<"b", "/", "i">> }
MoveDestinations ==
  { <<"j">>, <<"i">>, <<"b", "/", "j">>, <<".", ".", "/", "v", "v", "/", "j">>,
    <<".", ".", "/", "z", "/", "j">> }

\* Arguments of delete_note
DeleteRefs == { <<"i">>, <<"s">>, <<".", "t", "r", "a", "s", "h", "/", "i">> }

\* Arguments of edit_note
Edit(old_text, new_text) == [oldText |-> old_text, newText |-> new_text]
EditLists ==
  { <<>>,
    << Edit(<<"i">>, <<"j">>) >>,
    << Edit(<<"i">>, <<"i", "i">>) >>,
    << Edit(<<"[">>, <<>>) >>,
    << Edit(<<"i">>, <<"k">>), Edit(<<"k", "]">>, <<"i", "]">>) >>,
    << Edit(<<"i">>, <<"j">>), Edit(<<"z">>, <<>>) >> }
EditRefs == { <<"s">>, <<"x">> }

\* Arguments of write_note
WriteRefs ==
  { <<"x">>, <<"s">>, <<"d">>, <<"c", "/", "x">>, <<".", ".", "/", "v", "v", "/", "x">>,
    <<".", ".", "/", "z", "/", "x">> }
WriteContents == { <<>>, <<"w">> }

\* Arguments of update_wikilinks
RenamePairs ==
  { <<nI, <<"j">> >>, << <<"s">>, <<"j">> >>, <<nI, <<"I">> >>, <<nI, <<"i", "#", "x">> >> }

\* A note with an inline tag and a picture, beside the notes of a vault
TaggedNote ==
  <<"#", "I", " ", "x", "\n", "a", "#", "i", "\n", "i", "i", " ", "#", "i", "i">>
ReadVaults ==
  { (<<nV, <<"t", ".", "m", "d">> >> :> FileNode(TaggedNote))
      @@ (<<nV, <<"x", ".", "p", "n", "g">> >> :> FileNode(<<"o">>))
      @@ LinkTree(src, TRUE, FALSE, "self") @@ ExtraEntries(extra) :
      src \in NoteSources, extra \in {"dirnote", "binary", "trashfull", "noext"} }

\* Arguments of read_note and get_frontmatter
ReadRefs ==
  { <<"i">>, <<"s">>, <<"t">>, <<"x">>, <<"x", ".", "p", "n", "g">>, <<"d">>, <<"u">>,
    <<"c", "/", "z">> }

\* Arguments of search_notes
Queries == { <<>>, <<"i">>, <<"[", "[", "I">>, <<"x">>, <<"z">> }
SearchFolders == { <<>>, <<"b">>, <<"q">> }
MaxResults == {0, 1, 20}

\* Arguments of search_by_tag
Tags == { <<>>, <<"#">>, <<"i">>, <<"#", "I">>, <<"i", "i">>, <<"h">> }

\* A call of read_note
ReadNote ==
  \E path \in ReadRefs, include_frontmatter \in BOOLEAN, scan \in {"asc", "desc"} :
    /\ call = Idle
    /\ \E r \in {read_note(fs, path, include_frontmatter, scan)} :
         /\ call' = [op |-> "read_note", path |-> path,
                     include_frontmatter |-> include_frontmatter, before |-> fs]
         /\ ret' = [status |-> r.status, text |-> r.text]
         /\ fs' = r.fs
    /\ UNCHANGED nops

\* A call of search_notes
SearchNotes ==
  \E query \in Queries, folder \in SearchFolders, max_results \in MaxResults :
    /\ call = Idle
    /\ \E r \in {search_notes(fs, query, folder, max_results)} :
         /\ call' = [op |-> "search_notes", query |-> query, folder |-> folder,
                     max_results |-> max_results, before |-> fs]
         /\ ret' = [status |-> r.status, list |-> r.list]
         /\ fs' = r.fs
    /\ UNCHANGED nops

\* A call of search_by_tag
SearchByTag ==
  \E tag \in Tags :
    /\ call = Idle
    /\ \E r \in {search_by_tag(fs, tag)} :
         /\ call' = [op |-> "search_by_tag", tag |-> tag, before |-> fs]
         /\ ret' = [status |-> r.status, list |-> r.list]
         /\ fs' = r.fs
    /\ UNCHANGED nops

\* A call of list_notes
ListNotes ==
  \E folder \in Folders, recursive \in BOOLEAN, max_depth \in Depths :
    /\ call = Idle
    /\ \E r \in {list_notes(fs, folder, recursive, max_depth)} :
         /\ call' = [op |-> "list_notes", folder |-> folder, recursive |-> recursive,
                     max_depth |-> max_depth, before |-> fs]
         /\ ret' = [status |-> r.status, list |-> r.list]
         /\ fs' = r.fs
    /\ UNCHANGED nops

\* A call of get_frontmatter
GetFrontmatter ==
  \E path \in ReadRefs, scan \in {"asc", "desc"} :
    /\ call = Idle
    /\ \E r \in {get_frontmatter(fs, path, scan)} :
         /\ call' = [op |-> "get_frontmatter", path |-> path, before |-> fs]
         /\ ret' = [status |-> r.status]
         /\ fs' = r.fs
    /\ UNCHANGED nops

\* A call of move_note
MoveNote ==
  \E source \in MoveSources, destination \in MoveDestinations, scan \in {"asc", "desc"} :
    /\ call = Idle
    /\ nops < MaxOps
    /\ \E m \in {move_note(fs, source, destination, scan)} :
         /\ call' = [op |-> "move_note", source |-> source, destination |-> destination,
                     before |-> fs]
         /\ ret' = [status |-> m.status, src |-> m.src, dst |-> m.dst,
                    updated |-> m.updated]
         /\ fs' = m.fs
    /\ nops' = nops + 1

\* A call of delete_note
DeleteNote ==
  \E path \in DeleteRefs, confirm \in BOOLEAN, scan \in {"asc", "desc"} :
    /\ call = Idle
    /\ nops < MaxOps
    /\ \E d \in {delete_note(fs, path, confirm, scan)} :
         /\ call' = [op |-> "delete_note", path |-> path, confirm |-> confirm,
                     before |-> fs]
         /\ ret' = [status |-> d.status, path |-> d.path, dest |-> d.dest]
         /\ fs' = d.fs
    /\ nops' = nops + 1

\* A call of edit_note
EditNote ==
  \E path \in EditRefs, edits \in EditLists, dry_run \in BOOLEAN, scan \in {"asc", "desc"} :
    /\ call = Idle
    /\ nops < MaxOps
    /\ \E e \in {edit_note(fs, path, edits, dry_run, scan)} :
         /\ call' = [op |-> "edit_note", path |-> path, edits |-> edits,
                     dry_run |-> dry_run, before |-> fs]
         /\ ret' = [status |-> e.status]
         /\ fs' = e.fs
    /\ nops' = nops + 1

\* A call of write_note
WriteNote ==
  \E path \in WriteRefs, content \in WriteContents :
    /\ call = Idle
    /\ nops < MaxOps
    /\ \E w \in {write_note(fs, path, content)} :
         /\ call' = [op |-> "write_note", path |-> path, content |-> content,
                     before |-> fs]
         /\ ret' = [status |-> w.status, path |-> w.path]
         /\ fs' = w.fs
    /\ nops' = nops + 1

\* A call of update_wikilinks
UpdateWikilinks ==
  \E pair \in RenamePairs :
    /\ call = Idle
    /\ nops < MaxOps
    /\ \E u \in {update_wikilinks(fs, pair[1], pair[2])} :
         /\ call' = [op |-> "update_wikilinks", old_name |-> pair[1],
                     new_name |-> pair[2], before |-> fs]
         /\ ret' = [status |-> IF u.raised = "" THEN "ok" ELSE "raised",
                    updated |-> u.updated]
         /\ fs' = u.fs
    /\ nops' = nops + 1

\* The tool's result goes back to the caller and the server takes the next request
Reply ==
  /\ call # Idle
  /\ call' = Idle
  /\ ret' = Idle
  /\ UNCHANGED <<fs, nops>>

Next == ResolvePath \/ EnsurePath \/ IterNotes \/ IterEntries \/ Reply

Spec == Init /\ [][Next]_vars

\* Wikilink extraction on its own
InitParse ==
  /\ fs = VaultTree(FALSE, FALSE, FALSE, FALSE, "none")
  /\ call = Idle
  /\ ret = Idle
  /\ nops = 0

NextParse == ParseWikilinks \/ Reply

SpecParse == InitParse /\ [][NextParse]_vars

\* The link graph of a vault of notes
InitLinks ==
  /\ fs \in LinkVaults
  /\ call = Idle
  /\ ret = Idle
  /\ nops = 0

NextLinks == GetBacklinks \/ GetOutgoingLinks \/ Reply

SpecLinks == InitLinks /\ [][NextLinks]_vars

\* The tools that change notes
InitNotes ==
  /\ fs \in NoteVaults
  /\ call = Idle
  /\ ret = Idle
  /\ nops = 0

NextNotes == MoveNote \/ DeleteNote \/ EditNote \/ WriteNote \/ UpdateWikilinks \/ Reply

SpecNotes == InitNotes /\ [][NextNotes]_vars

\* The tools that only read, in a vault that write_note changes between their calls
InitReads ==
  /\ fs \in ReadVaults
  /\ call = Idle
  /\ ret = Idle
  /\ nops = 0

NextReads ==
  \/ ResolvePath \/ IterNotes \/ IterEntries \/ GetBacklinks \/ GetOutgoingLinks
  \/ ReadNote \/ SearchNotes \/ SearchByTag \/ ListNotes \/ GetFrontmatter
  \/ WriteNote \/ Reply

SpecReads == InitReads /\ [][NextReads]_vars

----------------------------------------------------------------------------
(* Two rename propagations at once: each is the loop of update_wikilinks (links.py,
   lines 101-110) or of move_note (notes.py, lines 243-262), taken one file read and
   one file write at a time.  call holds where each of the two is: its list of notes,
   the index of the note in hand and the text read from it. *)

Writers == {1, 2}

\* /v/i.md, /v/s.md and a note a.md that links to both; b.md, which links to s, or not
RaceVaults ==
  { (<<>> :> DirNode) @@ (<<nV>> :> DirNode)
      @@ (<<nV, nImd>> :> FileNode(<<>>))
      @@ (<<nV, nSmd>> :> FileNode(LinkI))
      @@ (<<nV, <<"a", ".", "m", "d">> >> :>
            FileNode(LinkI \o <<" ", "[", "[", "s", "|", "c", "]", "]">>))
      @@ Entry(b, <<nV, <<"b", ".", "m", "d">> >>, FileNode(<<"[", "[", "S", "]", "]">>))
      @@ Entry(u, <<nV, <<"u", ".", "m", "d">> >>, FileNode(<<BadByte>>)) :
      b \in BOOLEAN, u \in BOOLEAN }

\* What the two do: the first is update_wikilinks("i", "j"), the second renames s to k
\* with update_wikilinks or with move_note
RaceJobs ==
  { [w \in Writers |-> IF w = 1 THEN [tool |-> "update_wikilinks", old |-> nI, new |-> <<"j">>]
                       ELSE [tool |-> t, old |-> <<"s">>, new |-> <<"k">>]] :
      t \in {"update_wikilinks", "move_note"} }

\* A writer before its first step
Ready(job) ==
  [tool |-> job.tool, old |-> job.old, new |-> job.new, pc |-> "ready", notes |-> <<>>,
   k |-> 0, content |-> <<>>, dst |-> <<>>, updated |-> 0]

\* The loop goes on to the next note, or ends
NextNote(r) ==
  [r EXCEPT !.k = r.k + 1, !.content = <<>>,
            !.pc = IF r.k + 1 > Len(r.notes) THEN "done" ELSE "read"]

Finished(r) == r.pc \in {"done", "raised", "error"}

\* With one operation at a time, a writer moves only while the other is not under way
MayRun(w) ==
  call.serial => \A o \in Writers \ {w} : call.run[o].pc = "ready" \/ Finished(call.run[o])

\* The two operations are requested, to run one after the other or interleaved
RenamesCalled ==
  \E jobs \in RaceJobs, serial \in BOOLEAN :
    /\ call = Idle
    /\ nops < MaxOps
    /\ call' = [op |-> "renames", serial |-> serial, before |-> fs,
                run |-> [w \in Writers |-> Ready(jobs[w])], stale |-> {}]
    /\ nops' = nops + 1
    /\ UNCHANGED <<fs, ret>>

\* move_note, lines 227-243: the note is moved; then, as in update_wikilinks line 101,
\* the notes are listed (sorted(...) draws the whole walk at once)
RenameBegins(w) ==
  /\ call.op = "renames"
  /\ call.run[w].pc = "ready"
  /\ MayRun(w)
  /\ LET r == call.run[w]
         src == resolve_path(fs, r.old, "asc")
         ens == ensure_path(fs, r.new)
         moved == ShutilMove(ens.fs, src.path, ens.path)
         after == IF r.tool = "update_wikilinks" THEN fs
                  ELSE IF ~src.some \/ ens.raised # "" \/ Exists(ens.fs, ens.path) THEN fs
                  ELSE moved.fs
         failed == /\ r.tool = "move_note"
                   /\ (~src.some \/ ens.raised # "" \/ Exists(ens.fs, ens.path)
                       \/ moved.raised # "")
         listed == [r EXCEPT !.notes = iter_notes(after, <<>>, TRUE, ScanDepth).list,
                             !.dst = IF r.tool = "move_note" THEN ens.path ELSE <<>>]
     IN /\ fs' = after
        /\ call' = [call EXCEPT !.run[w] = IF failed THEN [r EXCEPT !.pc = "error"]
                                           ELSE NextNote(listed)]
  /\ UNCHANGED <<ret, nops>>

\* One note is read (links.py line 103, notes.py line 251) and the substitution made:
\* a note that needs no change is passed over.  update_wikilinks passes over a note it
\* cannot read; move_note passes over the moved note and ends on one it cannot read
RenameReads(w) ==
  /\ call.op = "renames"
  /\ call.run[w].pc = "read"
  /\ MayRun(w)
  /\ LET r == call.run[w]
         note == r.notes[r.k]
         read == ReadText(fs, note)
     IN call' = [call EXCEPT !.run[w] =
                   IF r.tool = "move_note" /\ note = r.dst THEN NextNote(r)
                   ELSE IF read.raised # ""
                        THEN (IF r.tool = "move_note" THEN [r EXCEPT !.pc = "raised"]
                              ELSE NextNote(r))
                   ELSE IF PatternSub(read.text, 1, r.old, r.new) = read.text
                        THEN NextNote(r)
                   ELSE [r EXCEPT !.pc = "write", !.content = read.text]]
  /\ UNCHANGED <<fs, ret, nops>>

\* The note in hand is written with the text the substitution gave (links.py line 109,
\* notes.py line 261); stale records a note that no longer held what had been read
RenameWrites(w) ==
  /\ call.op = "renames"
  /\ call.run[w].pc = "write"
  /\ MayRun(w)
  /\ LET r == call.run[w]
         note == r.notes[r.k]
         written == WriteText(fs, note, PatternSub(r.content, 1, r.old, r.new))
     IN /\ fs' = written.fs
        /\ call' = [call EXCEPT
                      !.run[w] = IF written.raised # "" THEN [r EXCEPT !.pc = "raised"]
                                 ELSE NextNote([r EXCEPT !.updated = r.updated + 1]),
                      !.stale = IF ReadText(fs, note).text # r.content
                                THEN call.stale \cup {note} ELSE call.stale]
  /\ UNCHANGED <<ret, nops>>

\* Both have ended and their results go back
RenamesReturn ==
  /\ call.op = "renames"
  /\ \A w \in Writers : Finished(call.run[w])
  /\ call' = Idle
  /\ ret' = Idle
  /\ UNCHANGED <<fs, nops>>

InitRace ==
  /\ fs \in RaceVaults
  /\ call = Idle
  /\ ret = Idle
  /\ nops = 0

NextRace ==
  \/ RenamesCalled
  \/ \E w \in Writers : RenameBegins(w)
  \/ \E w \in Writers : RenameReads(w)
  \/ \E w \in Writers : RenameWrites(w)
  \/ RenamesReturn

SpecRace == InitRace /\ [][NextRace]_vars

----------------------------------------------------------------------------
(* Path resolution: sandbox, priority, tie-break *)

\* The canonical form of path is the vault root or lies below it, component by
\* component
Confined(f, path) == IsPrefix(Root, Resolve(f, path))

\* path lies below a directory with an excluded name
UnderExcluded(path) ==
  \E i \in 1..(Len(RelativeToRoot(path)) - 1) : RelativeToRoot(path)[i] \in EXCLUDED_DIRS

\* C1: every path resolve_path returns is the vault root or a descendant of it once
\* symlinks and ".." are resolved, and ensure_path either raises the path-escape
\* ValueError or returns such a path.
C1_ResolutionConfined ==
  /\ call.op = "resolve_path" /\ ret.some => Confined(fs, ret.path)
  /\ call.op = "ensure_path" =>
       \/ ret.raised = "ValueError"
       \/ ret.raised = "" /\ Confined(fs, ret.path)

\* C2: every path iter_notes and iter_entries yield canonicalizes to the vault root or
\* a descendant of it, whatever the folder argument.
C2_TraversalConfined ==
  call.op \in {"iter_notes", "iter_entries"} =>
    \A i \in 1..Len(ret.list) : Confined(fs, ret.list[i])

\* C3: a result resolve_path finds by basename (not the reference taken as a path, with
\* or without ".md") never lies under an excluded directory.
C3_ExcludedNotResolved ==
  call.op = "resolve_path" /\ ret.some
    /\ ret.path \notin { Join(Root, StripSlash(call.arg)),
                         Join(Root, StripSlash(call.arg) \o MD) }
  => ~UnderExcluded(ret.path)

\* The regular files of the vault: below the root as the tree is stored, and a file
\* whose canonical path is in the vault
VaultFiles(f) ==
  { p \in DOMAIN f : IsPrefix(Root, p) /\ Len(p) > Len(Root) /\ IsFile(f, p)
                     /\ Confined(f, p) }

\* C4: resolve_path(r) returns root/r if that is a regular file in the vault, otherwise
\* root/r.md if r lacks the extension and that is one, otherwise a file of the tree with
\* r's basename (".md" appended if absent), otherwise a file whose basename matches
\* case-insensitively, and None only if none of the four rules matches.
C4_ResolutionPriority ==
  call.op = "resolve_path" =>
    LET name == StripSlash(call.arg)
        exact == Join(Root, name)
        withMd == Join(Root, name \o MD)
        named == { p \in VaultFiles(fs) : Last(p) = Basename(name) }
        nocase == { p \in VaultFiles(fs) : LowerStr(Last(p)) = LowerStr(Basename(name)) }
    IN IF IsFile(fs, exact) /\ Confined(fs, exact) THEN ret = Some(exact)
       ELSE IF ~EndsWith(name, MD) /\ IsFile(fs, withMd) /\ Confined(fs, withMd)
            THEN ret = Some(withMd)
       ELSE IF named # {} THEN ret.some /\ ret.path \in named
       ELSE IF nocase # {} THEN ret.some /\ ret.path \in nocase
       ELSE ret = None

\* The files named n.md that the basename search of resolve_path accepts
NoteFiles(f) ==
  { p \in DOMAIN f : IsPrefix(Root, p) /\ Len(p) > Len(Root) /\ Last(p) = nNmd
                     /\ IsFile(f, p) /\ is_within_vault(f, p) }

\* C5 as claimed: with two or more files n.md in different folders (the vault root
\* counting as one), resolve_path("n") returns the smallest of their paths.
C5_SmallestOfAll ==
  call.op = "resolve_path" /\ call.arg = nN /\ Cardinality(NoteFiles(fs)) >= 2
  => ret = Some(MinPath(NoteFiles(fs)))

\* C5 as amended: with two or more files n.md in different folders, resolve_path("n")
\* returns root/n if rule 1 accepts it, otherwise root/n.md if rule 2 accepts it, and
\* otherwise the smallest of their paths in pathlib's order (component by component);
\* the result depends on the filesystem alone.
C5_TieBreak ==
  call.op = "resolve_path" /\ call.arg = nN /\ Cardinality(NoteFiles(fs)) >= 2
  => ret = IF IsFile(fs, <<nV, nN>>) /\ is_within_vault(fs, <<nV, nN>>)
           THEN Some(<<nV, nN>>)
           ELSE IF <<nV, nNmd>> \in NoteFiles(fs) THEN Some(<<nV, nNmd>>)
           ELSE Some(MinPath(NoteFiles(fs)))

\* A tie between two folders, broken towards the smaller path
C5_Witness ==
  /\ call.op = "resolve_path" /\ call.arg = nN
  /\ {<<nV, nA, nNmd>>, <<nV, nB, nNmd>>} \subseteq NoteFiles(fs)
  /\ <<nV, nNmd>> \notin DOMAIN fs /\ <<nV, nN>> \notin DOMAIN fs
  /\ ret = Some(<<nV, nA, nNmd>>)

\* root/r.md of the claim: r with ".md" appended, below the root
WithExtension(r) == Join(Root, StripSlash(r \o MD))

\* C6 as claimed: resolve_path(r) = resolve_path(r + ".md") whenever r does not end in
\* ".md" and root/r.md is a regular file in the vault.
C6_ExtensionAlways ==
  call.op = "resolve_path" /\ ~EndsWith(call.arg, MD)
    /\ IsFile(fs, WithExtension(call.arg)) /\ Confined(fs, WithExtension(call.arg))
  => \A scan \in {"asc", "desc"} : ret = resolve_path(fs, call.arg \o MD, scan)

\* C6 as amended: the same, for r that ends neither in ".md" nor in "/" and for which
\* root/r is not itself a file that rule 1 returns.
C6_ExtensionEquivalence ==
  call.op = "resolve_path" /\ ~EndsWith(call.arg, MD)
    /\ (call.arg = <<>> \/ Last(call.arg) # "/")
    /\ IsFile(fs, WithExtension(call.arg)) /\ Confined(fs, WithExtension(call.arg))
    /\ ~ExactMatch(fs, StripSlash(call.arg)).some
  => /\ ret = Some(WithExtension(call.arg))
     /\ \A scan \in {"asc", "desc"} : ret = resolve_path(fs, call.arg \o MD, scan)

\* "a/n" resolved by the suffix rule while another n.md sorts before it
C6_Witness ==
  /\ call.op = "resolve_path" /\ call.arg = <<"b", "/", "n">>
  /\ <<nV, nA, nNmd>> \in NoteFiles(fs)
  /\ ret = Some(<<nV, nB, nNmd>>)

\* C7: every path resolve_path returns is an existing regular file.
C7_ResultIsFile ==
  call.op = "resolve_path" /\ ret.some => IsFile(fs, ret.path)

\* C8: for a reference that stays inside the root, ensure_path returns root/r with
\* ".md" appended when absent, every parent directory exists afterwards, and the only
\* change is new directories (no file is created or modified); for a reference that
\* escapes the root it raises and changes nothing.
C8_WritePath ==
  call.op = "ensure_path" =>
    LET name == StripSlash(call.arg)
        full == Join(Root, IF EndsWith(name, MD) THEN name ELSE name \o MD)
    IN IF Confined(call.before, full)
       THEN /\ ret.raised = "" /\ ret.path = full
            /\ IsDir(fs, Parent(full))
            /\ \A p \in DOMAIN call.before : p \in DOMAIN fs /\ fs[p] = call.before[p]
            /\ \A p \in DOMAIN fs \ DOMAIN call.before : fs[p] = DirNode
       ELSE ret.raised # "" /\ fs = call.before

----------------------------------------------------------------------------
(* Wikilink extraction *)

\* q is what may stand between a target and the closing brackets: nothing, "#heading",
\* "|alias" or "#heading|alias" (a heading without "]" and "|", an alias of one or
\* more characters without "]")
Qualifier(q) ==
  \/ q = <<>>
  \/ /\ q[1] = "#"
     /\ \E h \in 1..Len(q) :
          /\ \A k \in 2..h : q[k] \notin {"]", "|"}
          /\ \/ h = Len(q)
             \/ /\ q[h + 1] = "|" /\ h + 2 <= Len(q)
                /\ \A k \in (h + 2)..Len(q) : q[k] # "]"
  \/ /\ q[1] = "|" /\ Len(q) >= 2
     /\ \A k \in 2..Len(q) : q[k] # "]"

\* s[k] may be part of a target: as claimed, anything before the first "|", "#" or
\* "]]"; as amended, anything but "]", "|", "#" and "^"
InTarget(s, k, asClaimed) ==
  IF asClaimed THEN s[k] \notin {"|", "#"} /\ ~At(s, k, <<"]", "]">>)
  ELSE s[k] \notin {"]", "|", "#", "^"}

\* The tokens whose "[[" is at position o, each with its target and its last index
TokensAt(s, o, asClaimed) ==
  IF ~At(s, o, <<"[", "[">>) THEN {}
  ELSE { [target |-> SubSeq(s, o + 2, ec[1]), end |-> ec[2] + 1] :
           ec \in { x \in ((o + 2)..Len(s)) \X ((o + 3)..Len(s)) :
                      /\ x[1] < x[2] /\ At(s, x[2], <<"]", "]">>)
                      /\ \A k \in (o + 2)..x[1] : InTarget(s, k, asClaimed)
                      /\ Qualifier(SubSeq(s, x[1] + 1, x[2] - 1)) } }

\* The targets of the tokens of s from position i on, in order of appearance, a token
\* starting where the one before it has ended
RECURSIVE TokenTargets(_, _, _)
TokenTargets(s, i, asClaimed) ==
  LET starts == { o \in i..Len(s) : TokensAt(s, o, asClaimed) # {} }
  IN IF starts = {} THEN <<>>
     ELSE LET o == CHOOSE x \in starts : \A y \in starts : x <= y
              tok == CHOOSE t \in TokensAt(s, o, asClaimed) :
                       \A u \in TokensAt(s, o, asClaimed) : t.end <= u.end
          IN <<tok.target>> \o TokenTargets(s, tok.end + 1, asClaimed)

\* C9 as claimed: parse_wikilinks returns, in order and with duplicates, the target of
\* every token [[target]], [[target|alias]], [[target#heading]], also prefixed with
\* "!", the target being the characters between "[[" and the first "|", "#" or "]]".
C9_TargetUpToDelimiter ==
  call.op = "parse_wikilinks" => ret.list = TokenTargets(call.arg, 1, TRUE)

\* C9 as amended: the same for tokens whose target is one or more characters other
\* than "]", "|", "#" and "^"; a text without such a token yields the empty list.
C9_Extraction ==
  call.op = "parse_wikilinks" => ret.list = TokenTargets(call.arg, 1, FALSE)

\* [[b|c]] then [[a#h]] then [[a]]: three targets, in order, the duplicate kept
C9_Witness ==
  /\ call.op = "parse_wikilinks"
  /\ call.arg = <<"[", "[", "b", "|", "c", "]", "]">> \o <<"[", "[", "a", "#", "h", "]", "]">>
                  \o <<"[", "[", "a", "]", "]">>
  /\ ret.list = << <<"b">>, <<"a">>, <<"a">> >>

----------------------------------------------------------------------------
(* The link graph *)

\* C10: if get_backlinks(B) lists note A, then get_outgoing_links(A) lists a link
\* that resolves to B.
C10_BacklinkSymmetry ==
  call.op = "get_backlinks" /\ ret.status = "ok" =>
    \A k \in 1..Len(ret.list) :
      LET out == get_outgoing_links(fs, ret.list[k].note, call.scan)
      IN /\ out.status = "ok"
         /\ \E j \in 1..Len(out.links) :
              ~out.links[j].broken /\ out.links[j].path = ret.target

----------------------------------------------------------------------------
(* Renaming and scanning *)

\* The notes of a vault: the readable regular files named *.md below the root and
\* outside the excluded directories
VaultNotes(f) ==
  { p \in DOMAIN f : /\ IsPrefix(Root, p) /\ Len(p) > Len(Root)
                     /\ f[p].kind = "file" /\ HasMdSuffix(Last(p))
                     /\ ReadText(f, p).raised = ""
                     /\ \A k \in (Len(Root) + 1)..Len(p) : p[k] \notin EXCLUDED_DIRS }

\* text holds a token [[old]], [[old| or [[old# (letter case ignored)
HasOldToken(text, old) ==
  \E i \in 1..Len(text) :
    /\ At(text, i, <<"[", "[">>)
    /\ i + 1 + Len(old) <= Len(text)
    /\ LowerStr(SubSeq(text, i + 2, i + 1 + Len(old))) = LowerStr(old)
    /\ \/ At(text, i + 2 + Len(old), <<"]", "]">>)
       \/ At(text, i + 2 + Len(old), <<"|">>)
       \/ At(text, i + 2 + Len(old), <<"#">>)

\* C11: after move_note has renamed old to new, every note that held [[old]], [[old|
\* or [[old# holds the [[new form in its place with the rest of its text kept, and no
\* note of the vault, the moved one included, still holds such a token.
C11_RenamePropagation ==
  call.op = "move_note" /\ ret.status = "ok"
    /\ Stem(Last(ret.src)) # Stem(Last(ret.dst))
  => LET old == Stem(Last(ret.src))
         new == Stem(Last(ret.dst))
         now(p) == IF p = Resolve(call.before, ret.src) THEN Resolve(fs, ret.dst) ELSE p
     IN \A p \in VaultNotes(call.before) :
          /\ now(p) \in DOMAIN fs
          /\ fs[now(p)].content = PatternSub(call.before[p].content, 1, old, new)
          /\ ~HasOldToken(fs[now(p)].content, old)

\* C12: a note that cannot be read or decoded never aborts a scan: move_note (once it
\* has moved the file) and update_wikilinks complete, and every other note is rewritten.
C12_ScanNeverAborts ==
  /\ call.op = "move_note" /\ ret.status \in {"ok", "scan_raised"}
       /\ Stem(Last(ret.src)) # Stem(Last(ret.dst))
     => /\ ret.status = "ok"
        /\ \A p \in VaultNotes(fs) :
             p # Resolve(fs, ret.dst) => ~HasOldToken(fs[p].content, Stem(Last(ret.src)))
  /\ call.op = "update_wikilinks"
     => /\ ret.status = "ok"
        /\ \A p \in VaultNotes(fs) : ~HasOldToken(fs[p].content, call.old_name)

----------------------------------------------------------------------------
(* Backlinks and outgoing links *)

\* The notes of f with a wikilink whose target is stem or ends in "/" and stem (letter
\* case ignored)
Linkers(f, stem) ==
  { p \in VaultNotes(f) :
      \E k \in 1..Len(parse_wikilinks(f[p].content)) :
        LET t == LowerStr(parse_wikilinks(f[p].content)[k])
        IN t = LowerStr(stem) \/ EndsWith(t, <<"/">> \o LowerStr(stem)) }

\* get_backlinks lists exactly the notes of expected, each once, with the count of
\* the header, and answers "no backlinks" when there is none
ListsExactly(expected) ==
  /\ ret.status = IF expected = {} THEN "none" ELSE "ok"
  /\ { ret.list[k].note : k \in 1..Len(ret.list) } = { RelStr(p) : p \in expected }
  /\ Len(ret.list) = Cardinality(expected)
  /\ ret.count = Len(ret.list)

FirstSeen(targets) ==
  { k \in 1..Len(targets) :
      \A m \in 1..(k - 1) : LowerStr(targets[m]) # LowerStr(targets[k]) }

\* The j-th smallest element of a set of numbers
NthOf(S, j) == CHOOSE k \in S : Cardinality({ m \in S : m <= k }) = j

\* C14: get_outgoing_links reports each target of the note once, targets equal up to
\* letter case being one target, in first-seen spelling and order, each with the path
\* resolve_path returns for it or the broken-link marker; a source that does not
\* resolve gives the not-found error.
C14_OutgoingLinks ==
  call.op = "get_outgoing_links" =>
    LET N == resolve_path(fs, call.arg, call.scan)
        targets == parse_wikilinks(ReadText(fs, N.path).text)
    IN IF ~N.some THEN ret.status = "not_found"
       ELSE ReadText(fs, N.path).raised = "" =>
            IF targets = <<>> THEN ret.status = "no_links"
            ELSE /\ ret.status = "ok"
                 /\ ret.note = RelStr(N.path)
                 /\ Len(ret.links) = Cardinality(FirstSeen(targets))
                 /\ \A j \in 1..Len(ret.links) :
                      LET t == targets[NthOf(FirstSeen(targets), j)]
                          to == resolve_path(fs, t, call.scan)
                      IN /\ ret.links[j].target = t
                         /\ ret.links[j].broken = ~to.some
                         /\ to.some => ret.links[j].path = RelStr(to.path)

\* s.md holds [[i]][[x]][[I]]: i is reported once and resolved, x is broken
C14_Witness ==
  /\ call.op = "get_outgoing_links" /\ call.arg = <<"s">>
  /\ fs[<<nV, nSmd>>].content = LinkI \o <<"[", "[", "x", "]", "]">> \o <<"[", "[", "I", "]", "]">>
  /\ <<nV, nImd>> \in DOMAIN fs
  /\ ret.status = "ok" /\ Len(ret.links) = 2
  /\ ret.links[1] = [target |-> nI, broken |-> FALSE, path |-> nImd]
  /\ ret.links[2].target = <<"x">> /\ ret.links[2].broken

----------------------------------------------------------------------------
(* The tools that change notes *)

\* No file of the vault or beside it has been moved, created, deleted or rewritten
\* since the call began
FilesKept ==
  /\ \A p \in DOMAIN call.before :
       call.before[p].kind # "dir" => p \in DOMAIN fs /\ fs[p] = call.before[p]
  /\ \A p \in DOMAIN fs : fs[p].kind # "dir" => p \in DOMAIN call.before

\* The path a write reference names: root/r with ".md" appended when absent
WritePath(r) ==
  Join(Root, IF EndsWith(StripSlash(r), MD) THEN StripSlash(r) ELSE StripSlash(r) \o MD)

\* C15: when the source does not resolve, the destination escapes the vault or the
\* destination file exists, move_note returns an error and every note keeps its
\* location and content.
C15_MoveFailsAtomically ==
  call.op = "move_note"
    /\ \/ \A scan \in {"asc", "desc"} : ~resolve_path(call.before, call.source, scan).some
       \/ ~Confined(call.before, WritePath(call.destination))
       \/ Exists(call.before, WritePath(call.destination))
  => ret.status \in {"not_found", "escape", "exists"} /\ FilesKept

\* The trash folder and the entries in it
TrashDir == Append(Root, nTrash)
TrashFiles(f) == { p \in DOMAIN f : IsPrefix(TrashDir, p) /\ Len(p) > Len(TrashDir) }

\* delete_note with confirm=True has found the note
Deleted == call.op = "delete_note" /\ call.confirm /\ ret.status \in {"trashed", "deleted"}

\* The note is gone from where it was, and with a trash folder the trash has exactly one
\* new file, which is the note, and keeps the files of kept as they were
MovedToTrash(kept) ==
  /\ ~Exists(fs, ret.path)
  /\ IsDir(call.before, TrashDir) =>
       /\ Cardinality(TrashFiles(fs) \ TrashFiles(call.before)) = 1
       /\ \A p \in TrashFiles(fs) \ TrashFiles(call.before) :
            fs[p] = call.before[Resolve(call.before, ret.path)]
       /\ \A p \in kept : p \in DOMAIN fs /\ fs[p] = call.before[p]

\* C16 as claimed: without confirm nothing changes; with it the note leaves its place
\* and, with a trash folder, becomes one new file there while every file already in
\* the trash keeps its name and content.
C16_TrashUntouched ==
  /\ call.op = "delete_note" /\ ~call.confirm => fs = call.before
  /\ Deleted => MovedToTrash(TrashFiles(call.before))

\* C16 as amended: the same, but a note that is itself in the trash is renamed there to
\* a free numbered name; every other file of the trash keeps its name and content.
C16_DeleteGated ==
  /\ call.op = "delete_note" /\ ~call.confirm => fs = call.before
  /\ Deleted => MovedToTrash(TrashFiles(call.before) \ {Resolve(call.before, ret.path)})

\* i.md goes to a trash that has an i.md: it becomes i_1.md and the old one stays
C16_Witness ==
  /\ Deleted /\ ret.path = <<nV, nImd>>
  /\ <<nV, nTrash, nImd>> \in DOMAIN call.before
  /\ ret.dest = <<nV, nTrash, <<"i", "_", "1", ".", "m", "d">> >>
  /\ fs[ret.dest] = call.before[<<nV, nImd>>]
  /\ fs[<<nV, nTrash, nImd>>] = call.before[<<nV, nTrash, nImd>>]

\* text with the first occurrence of old_text replaced by new_text
FirstReplaced(text, old_text, new_text) ==
  LET i == CHOOSE x \in 1..(Len(text) + 1) :
             /\ At(text, x, old_text)
             /\ \A y \in 1..(x - 1) : ~At(text, y, old_text)
  IN SubSeq(text, 1, i - 1) \o new_text \o SubSeq(text, i + Len(old_text), Len(text))

\* The text after the edits, each applied to what the ones before it have left; found
\* is false when some oldText does not occur where its turn comes
RECURSIVE EditOutcome(_, _)
EditOutcome(text, edits) ==
  IF edits = <<>> THEN [found |-> TRUE, text |-> text]
  ELSE IF \A x \in 1..(Len(text) + 1) : ~At(text, x, Head(edits).oldText)
       THEN [found |-> FALSE, text |-> text]
  ELSE EditOutcome(FirstReplaced(text, Head(edits).oldText, Head(edits).newText),
                   Tail(edits))

\* C17: edit_note writes the note exactly when dry_run is false, every oldText occurs
\* in the text as the preceding edits have left it, and the result differs from the
\* original; what it writes is that result, each edit replacing the first occurrence
\* only; a missing oldText gives an error and leaves the file as it was.
C17_EditWrites ==
  call.op = "edit_note" =>
    \A scan \in {"asc", "desc"} :
      LET N == resolve_path(call.before, call.path, scan)
          original == ReadText(call.before, N.path)
          outcome == EditOutcome(original.text, call.edits)
      IN IF ~N.some \/ original.raised # "" THEN fs = call.before
         ELSE /\ fs # call.before <=>
                   ~call.dry_run /\ outcome.found /\ outcome.text # original.text
              /\ fs # call.before =>
                   fs = [call.before EXCEPT ![Resolve(call.before, N.path)].content =
                                              outcome.text]
              /\ ~outcome.found => ret.status = "missing" /\ fs = call.before

\* "[[i]]" edited with "[" -> "": only the first bracket goes
C17_Witness ==
  /\ call.op = "edit_note" /\ ~call.dry_run /\ call.path = <<"s">>
  /\ call.edits = << Edit(<<"[">>, <<>>) >>
  /\ call.before[<<nV, nSmd>>].content = LinkI
  /\ fs[<<nV, nSmd>>].content = <<"[", "i", "]", "]">>
  /\ ret.status = "diff"

\* C18: edit_note is idempotent: the same call made again straight after itself leaves
\* the note with the content the first call gave it.
C18_EditIdempotent ==
  call.op = "edit_note" =>
    \E scan \in {"asc", "desc"} :
      edit_note(fs, call.path, call.edits, call.dry_run, scan).fs = fs

\* resolve_path(p) after the write names the file written, and it holds the content
WrittenIsFound ==
  \A scan \in {"asc", "desc"} :
    LET R == resolve_path(fs, call.path, scan)
    IN /\ R.some
       /\ Resolve(fs, R.path) = Resolve(fs, ret.path)
       /\ fs[Resolve(fs, R.path)].kind = "file"
       /\ fs[Resolve(fs, R.path)].content = call.content

\* The reference as written, without ".md", is already a file of the vault
NamesOtherFile ==
  /\ ~EndsWith(StripSlash(call.path), MD)
  /\ IsFile(call.before, Join(Root, StripSlash(call.path)))

\* C19 as stated: after write_note(p, c) succeeds for a reference p that stays in the
\* vault, resolve_path(p) is the file just written and its content is exactly c, in
\* every vault.
C19_WriteResolves ==
  (call.op = "write_note" /\ ret.status = "ok" /\ Confined(call.before, WritePath(call.path)))
    => WrittenIsFound

\* C19: after write_note(p, c) succeeds for a reference p that stays in the vault,
\* resolve_path(p) is the file just written and its content is exactly c, unless p has
\* no ".md" suffix and a file named exactly p exists already: the write then goes to
\* p.md and resolve_path(p) goes on returning the file p.
C19_WriteResolvesNotes ==
  (call.op = "write_note" /\ ret.status = "ok" /\ Confined(call.before, WritePath(call.path)))
    => IF NamesOtherFile
       THEN \A scan \in {"asc", "desc"} :
              resolve_path(fs, call.path, scan).path = Join(Root, StripSlash(call.path))
       ELSE WrittenIsFound

\* s.md, which held a link, is overwritten through the reference "s"
C19_Witness ==
  /\ call.op = "write_note" /\ ret.status = "ok" /\ call.path = <<"s">>
  /\ call.before[<<nV, nSmd>>].content # <<>>
  /\ call.content # call.before[<<nV, nSmd>>].content
  /\ fs[<<nV, nSmd>>].content = call.content
  /\ ~NamesOtherFile

----------------------------------------------------------------------------
(* The tools that only read *)

\* The operations annotated readOnlyHint=True, and the Vault methods they rest on
ReadOnlyOps ==
  { "resolve_path", "iter_notes", "iter_entries", "get_backlinks", "get_outgoing_links",
    "read_note", "search_notes", "search_by_tag", "list_notes", "get_frontmatter" }

\* C20: a read-only operation never creates, deletes, moves or modifies a file or a
\* directory, whatever its arguments and whether it succeeds or returns an error: the
\* vault after the call is the vault before it.
C20_ReadOnlyFrame == [][call'.op \in ReadOnlyOps => fs' = fs]_vars

\* read_note, after a write_note, has not found the note c/z, and there is no folder c
C20_Witness ==
  /\ call.op = "read_note" /\ call.path = <<"c", "/", "z">> /\ ret.status = "not_found"
  /\ nops = 1
  /\ fs = call.before
  /\ ~Exists(fs, <<nV, nC>>)

----------------------------------------------------------------------------
(* Searching *)

\* C21: search_notes returns at most max_results notes, for every max_results >= 0,
\* and at most three matching lines for each of them.
C21_SearchBounded ==
  call.op = "search_notes" =>
    /\ Len(ret.list) <= call.max_results
    /\ \A k \in 1..Len(ret.list) : Cardinality(ret.list[k].lines) <= 3

----------------------------------------------------------------------------
(* Traversal *)

\* C22: no path that iter_notes or iter_entries yields, shallow or recursive and for
\* any folder argument, has a component relative to the vault root that is the name of
\* an excluded directory.
C22_ExcludedInvisible ==
  call.op \in {"iter_notes", "iter_entries"} =>
    \A k \in 1..Len(ret.list) :
      \A i \in 1..Len(RelativeToRoot(ret.list[k])) :
        RelativeToRoot(ret.list[k])[i] \notin EXCLUDED_DIRS

\* The whole vault is listed, it holds .trash/n.md, and entries are yielded
C22_Witness ==
  /\ call.op = "iter_entries" /\ call.arg = <<>> /\ call.recursive
  /\ <<nV, nTrash, nNmd>> \in DOMAIN fs
  /\ ret.raised = "" /\ Len(ret.list) > 0

----------------------------------------------------------------------------
(* Rename propagation on its own *)

\* C23: update_wikilinks(old, new) writes exactly the notes whose content the
\* substitution changes and returns their number; every other file stays as it was,
\* byte for byte, and in a written note only the name in each token [[old]], [[old|,
\* [[old# (letter case ignored) changes: the delimiter, what follows it and all text
\* outside the tokens are kept.
C23_RenameFrame ==
  (call.op = "update_wikilinks" /\ ret.status = "ok") =>
    LET notes == VaultNotes(call.before)
        expected(p) == IF p \in notes
                       THEN PatternSub(call.before[p].content, 1, call.old_name,
                                       call.new_name)
                       ELSE call.before[p].content
        written == { p \in DOMAIN call.before : fs[p] # call.before[p] }
    IN /\ DOMAIN fs = DOMAIN call.before
       /\ \A p \in DOMAIN fs : /\ fs[p].kind = call.before[p].kind
                               /\ fs[p].content = expected(p)
       /\ ret.updated = Cardinality(written)

\* The move has succeeded and the note has the name it had
MovedUnderSameName ==
  /\ call.op = "move_note" /\ ret.status = "ok"
  /\ Last(ret.src) = Last(ret.dst)

\* C24: when move_note succeeds and source and destination have the same basename, the
\* content of every note, the moved one included, is unchanged; only the location of
\* the moved file changes.
C24_SameNameMove ==
  MovedUnderSameName =>
    LET from == Resolve(call.before, ret.src)
        to == Resolve(fs, ret.dst)
    IN /\ from \notin DOMAIN fs
       /\ to \in DOMAIN fs /\ to \notin DOMAIN call.before
       /\ fs[to] = call.before[from]
       /\ \A p \in DOMAIN call.before \ {from} : p \in DOMAIN fs /\ fs[p] = call.before[p]
       /\ \A p \in DOMAIN fs \ (DOMAIN call.before \cup {to}) : fs[p].kind = "dir"

\* b/i.md has been moved to the root, in a vault whose s.md links to it as [[I|c]]
C24_Witness ==
  /\ MovedUnderSameName
  /\ Resolve(call.before, ret.src) = <<nV, nB, nImd>>
  /\ Resolve(fs, ret.dst) = <<nV, nImd>>
  /\ Contains(fs[<<nV, nSmd>>].content, <<"[", "[", "I", "|">>)
  /\ fs[<<nV, nImd>>].content = LinkI

----------------------------------------------------------------------------
(* Deep listing *)

\* The paths, as the listing writes them, of what lies under the base folder at most
\* max_depth segments below it and outside the excluded directories; for iter_notes
\* those among them with a name that ends in ".md"
ListedUnder(f, op, folder, max_depth) ==
  LET base == IterBase(folder)
      here == Stat(f, base).path
  IN { base \o SubSeq(q, Len(here) + 1, Len(q)) :
         q \in { e \in DOMAIN f :
                   /\ IsPrefix(here, e) /\ Len(e) > Len(here)
                   /\ Len(e) - Len(here) <= max_depth
                   /\ \A i \in 1..Len(RelativeToRoot(base \o SubSeq(e, Len(here) + 1, Len(e)))) :
                        RelativeToRoot(base \o SubSeq(e, Len(here) + 1, Len(e)))[i]
                          \notin EXCLUDED_DIRS
                   /\ op = "iter_notes" => EndsWith(Last(e), MD) } }

\* The listing is sorted, has no entry twice and holds what ListedUnder names
DeepListingIs ==
  /\ ret.raised = ""
  /\ \A i \in 1..(Len(ret.list) - 1) : PathLess(ret.list[i], ret.list[i + 1])
  /\ { ret.list[i] : i \in 1..Len(ret.list) } =
       ListedUnder(fs, call.op, call.arg, call.max_depth)

\* The base folder of the call is missing
NoBaseFolder == ~Exists(fs, IterBase(call.arg))

----------------------------------------------------------------------------
(* Two writers *)

\* Both operations have ended
BothEnded == call.op = "renames" /\ \A w \in Writers : Finished(call.run[w])

\* A note of the vault still holds a link under the old name of the writer w
RenameMissing(w) ==
  \E p \in VaultNotes(fs) : HasOldToken(ReadText(fs, p).text, call.run[w].old)

\* C26: when the two operations run one at a time, no writer ever writes a note that has
\* changed since it read it, and once both have ended no note lacks either rename;
\* interleaved at the grain of single reads and writes they can reach a state where a
\* note rewritten by one has been overwritten by the other from a stale read and lacks
\* one of the renames (C26_Witness).
C26_NoLostUpdateInTurn ==
  (call.op = "renames" /\ call.serial) =>
    /\ call.stale = {}
    /\ \A w \in Writers :
         call.run[w].pc = "write" =>
           ReadText(fs, call.run[w].notes[call.run[w].k]).text = call.run[w].content
    /\ (\A w \in Writers : call.run[w].pc = "done") =>
         \A w \in Writers : ~RenameMissing(w)

\* Interleaved, both have ended without error, a.md was overwritten from a stale read
\* and still holds a link under an old name
C26_Witness ==
  /\ BothEnded /\ ~call.serial
  /\ \A w \in Writers : call.run[w].pc = "done"
  /\ <<nV, <<"a", ".", "m", "d">> >> \in call.stale
  /\ \E w \in Writers : HasOldToken(fs[<<nV, <<"a", ".", "m", "d">> >>].content,
                                    call.run[w].old)

----------------------------------------------------------------------------
(* After a deletion *)

\* The notes of the vault that bear the basename of the deleted note
Namesakes == { p \in VaultNotes(call.before) : Last(p) = Last(ret.path) }

\* C27: after delete_note(p, confirm=True) has deleted a note whose basename is unique
\* among the vault's notes, resolve_path(p) is None and read_note(p) reports "not
\* found", with a trash folder and without one, and a second delete_note(p,
\* confirm=True) returns the not-found error and changes nothing.
C27_DeletedStopsResolving ==
  (Deleted /\ Namesakes = {ret.path}) =>
    \A scan \in {"asc", "desc"} :
      /\ resolve_path(fs, call.path, scan) = None
      /\ read_note(fs, call.path, FALSE, scan).status = "not_found"
      /\ delete_note(fs, call.path, TRUE, scan).status = "not_found"
      /\ delete_note(fs, call.path, TRUE, scan).fs = fs

----------------------------------------------------------------------------
(* Backlinks across a rename *)

\* move_note has moved the note and ended its scan, and the note's name has changed
Renamed ==
  /\ call.op = "move_note" /\ ret.status = "ok"
  /\ Stem(Last(ret.src)) # Stem(Last(ret.dst))

\* The notes that get_backlinks lists for path
BacklinkNotes(f, path, scan) ==
  LET b == get_backlinks(f, path, scan)
  IN { b.list[k].note : k \in 1..Len(b.list) }

\* C28: a note that get_backlinks(src) lists before a successful move_note(src, dst)
\* that changes the basename is listed by get_backlinks(dst) afterwards, a note that
\* links through a folder-qualified link such as [[Folder/old]] included.
C28_BacklinksSurvive ==
  Renamed =>
    \A scan \in {"asc", "desc"} :
      BacklinkNotes(call.before, call.source, scan)
        \subseteq BacklinkNotes(fs, call.destination, scan)

----------------------------------------------------------------------------
(* The links a rename rewrites *)

\* The targets of the wikilinks of note p
TargetsOf(f, p) == parse_wikilinks(ReadText(f, p).text)

\* C29: move_note(src, dst) changes a wikilink of another note only if the link
\* resolved to src before the move; a link that resolved to another note of the same
\* basename in another folder is as it was and resolves to that note afterwards.
C29_OnlyLinksToSource ==
  Renamed =>
    \A p \in VaultNotes(call.before) \ {ret.src} :
      /\ Len(TargetsOf(fs, p)) = Len(TargetsOf(call.before, p))
      /\ \A k \in 1..Len(TargetsOf(call.before, p)) :
           LET old == TargetsOf(call.before, p)[k]
               new == TargetsOf(fs, p)[k]
           IN /\ new # old =>
                   \E scan \in {"asc", "desc"} :
                     resolve_path(call.before, old, scan) = Some(ret.src)
              /\ \A scan \in {"asc", "desc"} :
                   LET other == resolve_path(call.before, old, scan)
                   IN (other.some /\ other.path # ret.src
                       /\ Last(other.path) = Last(ret.src)) =>
                        new = old /\ resolve_path(fs, old, scan) = other

----------------------------------------------------------------------------
(* Renaming twice *)

\* C30: update_wikilinks(old, new) called a second time, immediately after the first,
\* modifies no file and returns 0, for all names old and new.
C30_RenameIdempotent ==
  (call.op = "update_wikilinks" /\ ret.status = "ok") =>
    /\ update_wikilinks(fs, call.old_name, call.new_name).fs = fs
    /\ update_wikilinks(fs, call.old_name, call.new_name).updated = 0

====
